---- MODULE Spec2Model ----
(***************************************************************************)
(* MikroTik MCP adapter: the domain command functions of                   *)
(* src/mcp_mikrotik/scope and the tool adapters of src/mcp_mikrotik/tools. *)
(*                                                                         *)
(* Every domain function has the same shape in the source: one             *)
(* app_logger.info call, a command string built from f-strings under       *)
(* `if` / `elif` tests on the optional parameters, one call of             *)
(* execute_mikrotik_command, a substring test on the response and a        *)
(* returned f-string.  Each function is written below as the record of     *)
(* its f-string templates and tests, in source order, and is run by the    *)
(* operators BuildCmd, LogLine and Finish.  Strings are TLA+ strings, so   *)
(* commands and results are compared character by character.              *)
(***************************************************************************)
EXTENDS Integers, Sequences, FiniteSets, TLC

VARIABLES
  pc,        \* "idle", "waiting" (inside execute_mikrotik_command), "done", "raised"
  tool,      \* name of the tool whose handler was invoked, "" for a direct call
  bag,       \* the argument bag given to the handler
  op,        \* name of the domain function entered, "" if none
  args,      \* its bound parameters; a parameter bound to None is not in DOMAIN
  log,       \* app_logger.info messages of this invocation, in order
  sent,      \* commands given to execute_mikrotik_command, in order
  response,  \* what execute_mikrotik_command returned
  result,    \* the string returned to the caller
  catalogue,   \* the registry's merged list of tool declarations
  dispatch,    \* the registry's merged table, tool name -> handler
  loaded,      \* how many adapter modules the registry has merged
  overwritten, \* tool names whose dispatch entry a later module replaced
  calls,       \* history: the number of invocations completed so far
  first,       \* history: the very first invocation and what it gave
  inflight     \* the local variables of each of two concurrent invocations

regVars == <<catalogue, dispatch, loaded, overwritten>>

histVars == <<calls, first>>

vars == <<pc, tool, bag, op, args, log, sent, response, result,
          catalogue, dispatch, loaded, overwritten, calls, first, inflight>>

\* ---- bounds ----

\* At most this many optional parameters are supplied in one call.
MaxOptional == 2

\* At most this many invocations follow one another in a session.
MaxCalls == 3

\* ---- Python values ----

StrV(x)  == [t |-> "str",  s |-> x,  i |-> 0, b |-> FALSE, l |-> <<>>]
IntV(x)  == [t |-> "int",  s |-> "", i |-> x, b |-> FALSE, l |-> <<>>]
BoolV(x) == [t |-> "bool", s |-> "", i |-> 0, b |-> x,     l |-> <<>>]
ListV(x) == [t |-> "list", s |-> "", i |-> 0, b |-> FALSE, l |-> x]

StrVals  == {StrV("br0"), StrV("")}
IntVals  == {IntV(5), IntV(0)}
BoolVals == {BoolV(TRUE), BoolV(FALSE)}
ListVals ==
  {ListV(<<"10.0.0.1", "10.0.0.2">>), ListV(<<"10.0.0.2", "10.0.0.1">>),
   ListV(<<"10.0.0.1">>), ListV(<<"10.0.0.1", "10.0.0.2", "10.0.0.3">>), ListV(<<>>)}
\* device-assigned identifiers, as RouterOS prints them
IdVals   == {StrV("*1"), StrV("")}

\* the values of a parameter type (annotation) or of a schema type
TypeVals(t) ==
  CASE t \in {"str", "string"}   -> StrVals
    [] t \in {"int", "integer"}  -> IntVals
    [] t \in {"bool", "boolean"} -> BoolVals
    [] t \in {"list", "array"}   -> ListVals

\* script sources: quotes, newlines, a backslash before a quote, and a
\* backslash and an n where another has a newline
SourceVals ==
  {StrV(":put \"hi\""), StrV(":put 1\n:put 2"), StrV(":put 1\\n:put 2"), StrV("\"\n\""),
   StrV("a\\\"b"), StrV("")}
\* the parameters that carry a password, key or passphrase
SecretParams ==
  {"password", "secret", "authentication_password", "encryption_password",
   "tcp_md5_key", "authentication_key", "passphrase", "export_passphrase"}
\* secrets, one of them with a double quote in it
SecretVals == {StrV("br0"), StrV("p\"w"), StrV("")}

\* comments, one of them with the word the failure test looks for
CommentVals == {StrV("br0"), StrV("error"), StrV("")}

\* the values tried for parameter (or property) p
Vals(p) ==
  CASE p.n \in {"address_id", "route_id"} -> IdVals
    [] p.n = "source"                      -> SourceVals
    [] p.n \in SecretParams                -> SecretVals
    [] p.n = "comment"                     -> CommentVals
    [] OTHER                               -> TypeVals(p.t)

\* What the connector may return.
Responses ==
  {"", "done", "failure", "failure:", "Failure: x", "FAILURE: no such item",
   "ERROR", "no error here, all good", "input does not match any value of name",
   "erro r", "fail ure:", " 0 R  name=\"br0\" mtu=1500\n 1 X  name=\"br1\"\n"}

EmptyBag == [x \in {} |-> x]

\* bool(v)
Truthy(v) ==
  CASE v.t = "str"  -> v.s # ""
    [] v.t = "int"  -> v.i # 0
    [] v.t = "bool" -> v.b
    [] v.t = "list" -> v.l # <<>>

RECURSIVE Join_Trailing(_, _)
\* sep after every item, the last one included
Join_Trailing(sep, l) ==
  IF l = <<>> THEN "" ELSE l[1] \o sep \o Join_Trailing(sep, Tail(l))

RECURSIVE Join(_, _)
\* sep.join(l)
Join(sep, l) ==
  IF l = <<>> THEN ""
  ELSE IF Len(l) = 1 THEN l[1]
  ELSE l[1] \o sep \o Join(sep, Tail(l))

\* what iterating over v gives: the items of a list, the characters of a str
Items(v) ==
  IF v.t = "str" THEN [i \in 1..Len(v.s) |-> SubSeq(v.s, i, i)] ELSE v.l

RECURSIVE ReprItems(_)
ReprItems(l) ==
  IF l = <<>> THEN ""
  ELSE IF Len(l) = 1 THEN "'" \o l[1] \o "'"
  ELSE "'" \o l[1] \o "', " \o ReprItems(Tail(l))

\* str(v), as an f-string field formats it
PyStr(v) ==
  CASE v.t = "str"  -> v.s
    [] v.t = "int"  -> ToString(v.i)
    [] v.t = "bool" -> IF v.b THEN "True" ELSE "False"
    [] v.t = "list" -> "[" \o ReprItems(v.l) \o "]"

RECURSIVE Replace(_, _, _)
\* s.replace(c, by) for a one-character c
Replace(s, c, by) ==
  IF s = "" THEN ""
  ELSE (IF Head(s) = c THEN by ELSE Head(s)) \o Replace(Tail(s), c, by)

LowerChar(c) ==
  CASE c = "A" -> "a" [] c = "B" -> "b" [] c = "C" -> "c" [] c = "D" -> "d"
    [] c = "E" -> "e" [] c = "F" -> "f" [] c = "G" -> "g" [] c = "H" -> "h"
    [] c = "I" -> "i" [] c = "J" -> "j" [] c = "K" -> "k" [] c = "L" -> "l"
    [] c = "M" -> "m" [] c = "N" -> "n" [] c = "O" -> "o" [] c = "P" -> "p"
    [] c = "Q" -> "q" [] c = "R" -> "r" [] c = "S" -> "s" [] c = "T" -> "t"
    [] c = "U" -> "u" [] c = "V" -> "v" [] c = "W" -> "w" [] c = "X" -> "x"
    [] c = "Y" -> "y" [] c = "Z" -> "z" [] OTHER -> c

RECURSIVE Lower(_)
\* s.lower()
Lower(s) == IF s = "" THEN "" ELSE LowerChar(Head(s)) \o Lower(Tail(s))

RECURSIVE PyIn(_, _)
\* sub in s
PyIn(sub, s) ==
  IF Len(s) < Len(sub) THEN FALSE
  ELSE IF SubSeq(s, 1, Len(sub)) = sub THEN TRUE
  ELSE PyIn(sub, Tail(s))

\* ---- f-string templates ----

Lit(x)     == [k |-> "lit",  v |-> x]    \* literal text
Var(p)     == [k |-> "var",  v |-> p]    \* {p}
YesNo(p)   == [k |-> "yn",   v |-> p]    \* {'yes' if p else 'no'}
Joined(p)  == [k |-> "join", v |-> p]    \* {servers_str}, servers_str = ','.join(p)
Escaped(p) == [k |-> "esc",  v |-> p]    \* {source_escaped}
Res        == [k |-> "res",  v |-> ""]   \* {result}

Param(n, t, req) == [n |-> n, t |-> t, req |-> req]
Opt(test, p, add) == [test |-> test, p |-> p, add |-> add]

\* tool declarations and handlers
Prop(n, t) == [n |-> n, t |-> t]
Tool(n, props, required) == [name |-> n, props |-> props, required |-> required]
Direct(key) == [m |-> "direct", key |-> key]    \* args["key"]
Get(key)    == [m |-> "get",    key |-> key]    \* args.get("key")
Handler(n, f, reads) == [name |-> n, func |-> f, reads |-> reads]

\* a boolean formatted as {p}: True / False
Piece_PythonBool(x, a, r) ==
  CASE x.k = "lit"  -> x.v
    [] x.k = "var"  -> IF x.v \in DOMAIN a THEN PyStr(a[x.v]) ELSE "None"
    [] x.k = "yn"   -> PyStr(a[x.v])
    [] x.k = "join" -> Join(",", Items(a[x.v]))
    [] x.k = "esc"  -> Replace(Replace(a[x.v].s, "\"", "\\\""), "\n", "\\n")
    [] x.k = "res"  -> r

\* source.replace('"', '\\"') alone: newlines are left in the source
Piece_NewlineKept(x, a, r) ==
  CASE x.k = "lit"  -> x.v
    [] x.k = "var"  -> IF x.v \in DOMAIN a THEN PyStr(a[x.v]) ELSE "None"
    [] x.k = "yn"   -> IF Truthy(a[x.v]) THEN "yes" ELSE "no"
    [] x.k = "join" -> Join(",", Items(a[x.v]))
    [] x.k = "esc"  -> Replace(a[x.v].s, "\"", "\\\"")
    [] x.k = "res"  -> r

Piece(x, a, r) ==
  CASE x.k = "lit"  -> x.v
    [] x.k = "var"  -> IF x.v \in DOMAIN a THEN PyStr(a[x.v]) ELSE "None"
    [] x.k = "yn"   -> IF Truthy(a[x.v]) THEN "yes" ELSE "no"
    [] x.k = "join" -> Join(",", Items(a[x.v]))
    [] x.k = "esc"  -> Replace(Replace(a[x.v].s, "\"", "\\\""), "\n", "\\n")
    [] x.k = "res"  -> r

RECURSIVE Render(_, _, _)
Render(tpl, a, r) ==
  IF tpl = <<>> THEN "" ELSE Piece(Head(tpl), a, r) \o Render(Tail(tpl), a, r)

\* ---- src/mcp_mikrotik/scope/bridge.py ----

\* create_bridge sending disabled=no by default
mikrotik_create_bridge_Defaults ==
  [name |-> "mikrotik_create_bridge",
   params |-> <<Param("name", "str", TRUE), Param("mtu", "int", FALSE),
               Param("arp", "str", FALSE), Param("arp_timeout", "str", FALSE),
               Param("ageing_time", "str", FALSE), Param("priority", "int", FALSE),
               Param("protocol_mode", "str", FALSE), Param("vlan_filtering", "bool", FALSE),
               Param("comment", "str", FALSE), Param("disabled", "bool", FALSE)>>,
   log |-> <<Lit("Creating bridge: name="), Var("name")>>,
   cmd |-> <<Lit("/interface bridge add name=\""), Var("name"), Lit("\" disabled=no")>>,
   chain |-> "if",
   opts |-> <<
     Opt("truthy", "mtu", <<Lit(" mtu="), Var("mtu")>>),
     Opt("truthy", "arp", <<Lit(" arp="), Var("arp")>>),
     Opt("truthy", "arp_timeout", <<Lit(" arp-timeout="), Var("arp_timeout")>>),
     Opt("truthy", "ageing_time", <<Lit(" ageing-time="), Var("ageing_time")>>),
     Opt("notnone", "priority", <<Lit(" priority="), Var("priority")>>),
     Opt("truthy", "protocol_mode", <<Lit(" protocol-mode="), Var("protocol_mode")>>),
     Opt("notnone", "vlan_filtering", <<Lit(" vlan-filtering="), YesNo("vlan_filtering")>>),
     Opt("truthy", "comment", <<Lit(" comment=\""), Var("comment"), Lit("\"")>>),
     Opt("notnone", "disabled", <<Lit(" disabled="), YesNo("disabled")>>)
   >>,
   inspects |-> TRUE,
   fail |-> <<Lit("Failed to create bridge: "), Res>>,
   ok |-> <<Lit("Bridge '"), Var("name"), Lit("' created successfully")>>]

mikrotik_create_bridge ==
  [name |-> "mikrotik_create_bridge",
   params |-> <<Param("name", "str", TRUE), Param("mtu", "int", FALSE),
               Param("arp", "str", FALSE), Param("arp_timeout", "str", FALSE),
               Param("ageing_time", "str", FALSE), Param("priority", "int", FALSE),
               Param("protocol_mode", "str", FALSE), Param("vlan_filtering", "bool", FALSE),
               Param("comment", "str", FALSE), Param("disabled", "bool", FALSE)>>,
   log |-> <<Lit("Creating bridge: name="), Var("name")>>,
   cmd |-> <<Lit("/interface bridge add name=\""), Var("name"), Lit("\"")>>,
   chain |-> "if",
   opts |-> <<
     Opt("truthy", "mtu", <<Lit(" mtu="), Var("mtu")>>),
     Opt("truthy", "arp", <<Lit(" arp="), Var("arp")>>),
     Opt("truthy", "arp_timeout", <<Lit(" arp-timeout="), Var("arp_timeout")>>),
     Opt("truthy", "ageing_time", <<Lit(" ageing-time="), Var("ageing_time")>>),
     Opt("notnone", "priority", <<Lit(" priority="), Var("priority")>>),
     Opt("truthy", "protocol_mode", <<Lit(" protocol-mode="), Var("protocol_mode")>>),
     Opt("notnone", "vlan_filtering", <<Lit(" vlan-filtering="), YesNo("vlan_filtering")>>),
     Opt("truthy", "comment", <<Lit(" comment=\""), Var("comment"), Lit("\"")>>),
     Opt("notnone", "disabled", <<Lit(" disabled="), YesNo("disabled")>>)
   >>,
   inspects |-> TRUE,
   fail |-> <<Lit("Failed to create bridge: "), Res>>,
   ok |-> <<Lit("Bridge '"), Var("name"), Lit("' created successfully")>>]

mikrotik_list_bridges ==
  [name |-> "mikrotik_list_bridges",
   params |-> <<Param("name_filter", "str", FALSE), Param("disabled_only", "bool", FALSE)>>,
   log |-> <<Lit("Listing bridges")>>,
   cmd |-> <<Lit("/interface bridge print")>>,
   chain |-> "elif",
   opts |-> <<
     Opt("truthy", "name_filter", <<Lit(" where name~\""), Var("name_filter"), Lit("\"")>>),
     Opt("truthy", "disabled_only", <<Lit(" where disabled=yes")>>)
   >>,
   inspects |-> TRUE,
   fail |-> <<Lit("Failed to list bridges: "), Res>>,
   ok |-> <<Lit("Bridge Interfaces:\n\n"), Res>>]

mikrotik_remove_bridge ==
  [name |-> "mikrotik_remove_bridge",
   params |-> <<Param("name", "str", TRUE)>>,
   log |-> <<Lit("Removing bridge: "), Var("name")>>,
   cmd |-> <<Lit("/interface bridge remove [find name=\""), Var("name"), Lit("\"]")>>,
   chain |-> "if",
   opts |-> <<>>,
   inspects |-> TRUE,
   fail |-> <<Lit("Failed to remove bridge: "), Res>>,
   ok |-> <<Lit("Bridge '"), Var("name"), Lit("' removed successfully")>>]

mikrotik_add_bridge_port ==
  [name |-> "mikrotik_add_bridge_port",
   params |-> <<Param("bridge", "str", TRUE), Param("interface", "str", TRUE),
               Param("pvid", "int", FALSE), Param("priority", "int", FALSE),
               Param("path_cost", "int", FALSE), Param("edge", "bool", FALSE),
               Param("point_to_point", "str", FALSE), Param("horizon", "int", FALSE),
               Param("comment", "str", FALSE), Param("disabled", "bool", FALSE)>>,
   log |-> <<Lit("Adding bridge port: bridge="), Var("bridge"), Lit(", interface="), Var("interface")>>,
   cmd |-> <<Lit("/interface bridge port add bridge=\""), Var("bridge"), Lit("\" interface=\""), Var("interface"), Lit("\"")>>,
   chain |-> "if",
   opts |-> <<
     Opt("notnone", "pvid", <<Lit(" pvid="), Var("pvid")>>),
     Opt("notnone", "priority", <<Lit(" priority="), Var("priority")>>),
     Opt("notnone", "path_cost", <<Lit(" path-cost="), Var("path_cost")>>),
     Opt("notnone", "edge", <<Lit(" edge="), YesNo("edge")>>),
     Opt("truthy", "point_to_point", <<Lit(" point-to-point="), Var("point_to_point")>>),
     Opt("notnone", "horizon", <<Lit(" horizon="), Var("horizon")>>),
     Opt("truthy", "comment", <<Lit(" comment=\""), Var("comment"), Lit("\"")>>),
     Opt("notnone", "disabled", <<Lit(" disabled="), YesNo("disabled")>>)
   >>,
   inspects |-> TRUE,
   fail |-> <<Lit("Failed to add bridge port: "), Res>>,
   ok |-> <<Lit("Interface '"), Var("interface"), Lit("' added to bridge '"), Var("bridge"), Lit("' successfully")>>]

mikrotik_list_bridge_ports ==
  [name |-> "mikrotik_list_bridge_ports",
   params |-> <<Param("bridge_filter", "str", FALSE), Param("interface_filter", "str", FALSE)>>,
   log |-> <<Lit("Listing bridge ports")>>,
   cmd |-> <<Lit("/interface bridge port print")>>,
   chain |-> "elif",
   opts |-> <<
     Opt("truthy", "bridge_filter", <<Lit(" where bridge~\""), Var("bridge_filter"), Lit("\"")>>),
     Opt("truthy", "interface_filter", <<Lit(" where interface~\""), Var("interface_filter"), Lit("\"")>>)
   >>,
   inspects |-> TRUE,
   fail |-> <<Lit("Failed to list bridge ports: "), Res>>,
   ok |-> <<Lit("Bridge Ports:\n\n"), Res>>]

mikrotik_remove_bridge_port ==
  [name |-> "mikrotik_remove_bridge_port",
   params |-> <<Param("interface", "str", TRUE)>>,
   log |-> <<Lit("Removing bridge port: "), Var("interface")>>,
   cmd |-> <<Lit("/interface bridge port remove [find interface=\""), Var("interface"), Lit("\"]")>>,
   chain |-> "if",
   opts |-> <<>>,
   inspects |-> TRUE,
   fail |-> <<Lit("Failed to remove bridge port: "), Res>>,
   ok |-> <<Lit("Interface '"), Var("interface"), Lit("' removed from bridge successfully")>>]

mikrotik_add_bridge_vlan ==
  [name |-> "mikrotik_add_bridge_vlan",
   params |-> <<Param("bridge", "str", TRUE), Param("vlan_ids", "str", TRUE),
               Param("tagged", "str", FALSE), Param("untagged", "str", FALSE),
               Param("comment", "str", FALSE), Param("disabled", "bool", FALSE)>>,
   log |-> <<Lit("Adding bridge VLAN: bridge="), Var("bridge"), Lit(", vlan_ids="), Var("vlan_ids")>>,
   cmd |-> <<Lit("/interface bridge vlan add bridge=\""), Var("bridge"), Lit("\" vlan-ids="), Var("vlan_ids")>>,
   chain |-> "if",
   opts |-> <<
     Opt("truthy", "tagged", <<Lit(" tagged=\""), Var("tagged"), Lit("\"")>>),
     Opt("truthy", "untagged", <<Lit(" untagged=\""), Var("untagged"), Lit("\"")>>),
     Opt("truthy", "comment", <<Lit(" comment=\""), Var("comment"), Lit("\"")>>),
     Opt("notnone", "disabled", <<Lit(" disabled="), YesNo("disabled")>>)
   >>,
   inspects |-> TRUE,
   fail |-> <<Lit("Failed to add bridge VLAN: "), Res>>,
   ok |-> <<Lit("Bridge VLAN "), Var("vlan_ids"), Lit(" added successfully")>>]

mikrotik_list_bridge_vlans ==
  [name |-> "mikrotik_list_bridge_vlans",
   params |-> <<Param("bridge_filter", "str", FALSE)>>,
   log |-> <<Lit("Listing bridge VLANs")>>,
   cmd |-> <<Lit("/interface bridge vlan print")>>,
   chain |-> "if",
   opts |-> <<
     Opt("truthy", "bridge_filter", <<Lit(" where bridge~\""), Var("bridge_filter"), Lit("\"")>>)
   >>,
   inspects |-> TRUE,
   fail |-> <<Lit("Failed to list bridge VLANs: "), Res>>,
   ok |-> <<Lit("Bridge VLANs:\n\n"), Res>>]

mikrotik_get_bridge_host ==
  [name |-> "mikrotik_get_bridge_host",
   params |-> <<Param("bridge_filter", "str", FALSE)>>,
   log |-> <<Lit("Listing bridge hosts")>>,
   cmd |-> <<Lit("/interface bridge host print")>>,
   chain |-> "if",
   opts |-> <<
     Opt("truthy", "bridge_filter", <<Lit(" where bridge~\""), Var("bridge_filter"), Lit("\"")>>)
   >>,
   inspects |-> TRUE,
   fail |-> <<Lit("Failed to list bridge hosts: "), Res>>,
   ok |-> <<Lit("Bridge Hosts (MAC Table):\n\n"), Res>>]

\* ---- src/mcp_mikrotik/scope/certificate.py ----

mikrotik_list_certificates ==
  [name |-> "mikrotik_list_certificates",
   params |-> <<>>,
   log |-> <<Lit("Listing certificates")>>,
   cmd |-> <<Lit("/certificate print")>>,
   chain |-> "if",
   opts |-> <<>>,
   inspects |-> TRUE,
   fail |-> <<Lit("Failed to list certificates: "), Res>>,
   ok |-> <<Lit("Certificates:\n\n"), Res>>]

mikrotik_create_certificate ==
  [name |-> "mikrotik_create_certificate",
   params |-> <<Param("name", "str", TRUE), Param("common_name", "str", TRUE),
               Param("key_size", "int", FALSE), Param("days_valid", "int", FALSE),
               Param("key_usage", "str", FALSE), Param("subject_alt_name", "str", FALSE),
               Param("country", "str", FALSE), Param("state", "str", FALSE),
               Param("locality", "str", FALSE), Param("organization", "str", FALSE),
               Param("unit", "str", FALSE)>>,
   log |-> <<Lit("Creating certificate: name="), Var("name"), Lit(", common_name="), Var("common_name")>>,
   cmd |-> <<Lit("/certificate add name=\""), Var("name"), Lit("\" common-name=\""), Var("common_name"), Lit("\"")>>,
   chain |-> "if",
   opts |-> <<
     Opt("truthy", "key_size", <<Lit(" key-size="), Var("key_size")>>),
     Opt("truthy", "days_valid", <<Lit(" days-valid="), Var("days_valid")>>),
     Opt("truthy", "key_usage", <<Lit(" key-usage=\""), Var("key_usage"), Lit("\"")>>),
     Opt("truthy", "subject_alt_name", <<Lit(" subject-alt-name=\""), Var("subject_alt_name"), Lit("\"")>>),
     Opt("truthy", "country", <<Lit(" country=\""), Var("country"), Lit("\"")>>),
     Opt("truthy", "state", <<Lit(" state=\""), Var("state"), Lit("\"")>>),
     Opt("truthy", "locality", <<Lit(" locality=\""), Var("locality"), Lit("\"")>>),
     Opt("truthy", "organization", <<Lit(" organization=\""), Var("organization"), Lit("\"")>>),
     Opt("truthy", "unit", <<Lit(" unit=\""), Var("unit"), Lit("\"")>>)
   >>,
   inspects |-> TRUE,
   fail |-> <<Lit("Failed to create certificate: "), Res>>,
   ok |-> <<Lit("Certificate '"), Var("name"), Lit("' created successfully")>>]

mikrotik_sign_certificate ==
  [name |-> "mikrotik_sign_certificate",
   params |-> <<Param("name", "str", TRUE), Param("ca", "str", FALSE)>>,
   log |-> <<Lit("Signing certificate: "), Var("name")>>,
   cmd |-> <<Lit("/certificate sign [find name=\""), Var("name"), Lit("\"]")>>,
   chain |-> "if",
   opts |-> <<
     Opt("truthy", "ca", <<Lit(" ca=\""), Var("ca"), Lit("\"")>>)
   >>,
   inspects |-> TRUE,
   fail |-> <<Lit("Failed to sign certificate: "), Res>>,
   ok |-> <<Lit("Certificate '"), Var("name"), Lit("' signed successfully")>>]

mikrotik_import_certificate ==
  [name |-> "mikrotik_import_certificate",
   params |-> <<Param("file_name", "str", TRUE), Param("passphrase", "str", FALSE),
               Param("name", "str", FALSE)>>,
   log |-> <<Lit("Importing certificate from: "), Var("file_name")>>,
   cmd |-> <<Lit("/certificate import file-name=\""), Var("file_name"), Lit("\"")>>,
   chain |-> "if",
   opts |-> <<
     Opt("truthy", "passphrase", <<Lit(" passphrase=\""), Var("passphrase"), Lit("\"")>>),
     Opt("truthy", "name", <<Lit(" name=\""), Var("name"), Lit("\"")>>)
   >>,
   inspects |-> TRUE,
   fail |-> <<Lit("Failed to import certificate: "), Res>>,
   ok |-> <<Lit("Certificate imported from '"), Var("file_name"), Lit("' successfully")>>]

mikrotik_export_certificate ==
  [name |-> "mikrotik_export_certificate",
   params |-> <<Param("name", "str", TRUE), Param("file_name", "str", FALSE),
               Param("export_passphrase", "str", FALSE), Param("type", "str", FALSE)>>,
   log |-> <<Lit("Exporting certificate: "), Var("name")>>,
   cmd |-> <<Lit("/certificate export [find name=\""), Var("name"), Lit("\"]")>>,
   chain |-> "if",
   opts |-> <<
     Opt("truthy", "file_name", <<Lit(" file-name=\""), Var("file_name"), Lit("\"")>>),
     Opt("truthy", "export_passphrase", <<Lit(" export-passphrase=\""), Var("export_passphrase"), Lit("\"")>>),
     Opt("truthy", "type", <<Lit(" type="), Var("type")>>)
   >>,
   inspects |-> TRUE,
   fail |-> <<Lit("Failed to export certificate: "), Res>>,
   ok |-> <<Lit("Certificate '"), Var("name"), Lit("' exported successfully")>>]

mikrotik_remove_certificate ==
  [name |-> "mikrotik_remove_certificate",
   params |-> <<Param("name", "str", TRUE)>>,
   log |-> <<Lit("Removing certificate: "), Var("name")>>,
   cmd |-> <<Lit("/certificate remove [find name=\""), Var("name"), Lit("\"]")>>,
   chain |-> "if",
   opts |-> <<>>,
   inspects |-> TRUE,
   fail |-> <<Lit("Failed to remove certificate: "), Res>>,
   ok |-> <<Lit("Certificate '"), Var("name"), Lit("' removed successfully")>>]

mikrotik_enable_ssl_certificate ==
  [name |-> "mikrotik_enable_ssl_certificate",
   params |-> <<Param("service", "str", TRUE), Param("certificate", "str", TRUE)>>,
   log |-> <<Lit("Enabling SSL certificate for service: "), Var("service")>>,
   cmd |-> <<Lit("/certificate enable-ssl-certificate [find name=\""), Var("certificate"), Lit("\"] service="), Var("service")>>,
   chain |-> "if",
   opts |-> <<>>,
   inspects |-> TRUE,
   fail |-> <<Lit("Failed to enable SSL certificate: "), Res>>,
   ok |-> <<Lit("SSL certificate '"), Var("certificate"), Lit("' enabled for service '"), Var("service"), Lit("' successfully")>>]

\* ---- src/mcp_mikrotik/scope/hotspot.py ----

mikrotik_create_hotspot_server ==
  [name |-> "mikrotik_create_hotspot_server",
   params |-> <<Param("name", "str", TRUE), Param("interface", "str", TRUE),
               Param("address_pool", "str", TRUE), Param("profile", "str", FALSE),
               Param("disabled", "bool", FALSE)>>,
   log |-> <<Lit("Creating hotspot server: name="), Var("name"), Lit(", interface="), Var("interface")>>,
   cmd |-> <<Lit("/ip hotspot add name=\""), Var("name"), Lit("\" interface=\""), Var("interface"), Lit("\" address-pool=\""), Var("address_pool"), Lit("\"")>>,
   chain |-> "if",
   opts |-> <<
     Opt("truthy", "profile", <<Lit(" profile=\""), Var("profile"), Lit("\"")>>),
     Opt("notnone", "disabled", <<Lit(" disabled="), YesNo("disabled")>>)
   >>,
   inspects |-> TRUE,
   fail |-> <<Lit("Failed to create hotspot server: "), Res>>,
   ok |-> <<Lit("Hotspot server '"), Var("name"), Lit("' created successfully")>>]

mikrotik_list_hotspot_servers ==
  [name |-> "mikrotik_list_hotspot_servers",
   params |-> <<>>,
   log |-> <<Lit("Listing hotspot servers")>>,
   cmd |-> <<Lit("/ip hotspot print")>>,
   chain |-> "if",
   opts |-> <<>>,
   inspects |-> TRUE,
   fail |-> <<Lit("Failed to list hotspot servers: "), Res>>,
   ok |-> <<Lit("Hotspot Servers:\n\n"), Res>>]

mikrotik_list_hotspot_users ==
  [name |-> "mikrotik_list_hotspot_users",
   params |-> <<>>,
   log |-> <<Lit("Listing hotspot users")>>,
   cmd |-> <<Lit("/ip hotspot user print")>>,
   chain |-> "if",
   opts |-> <<>>,
   inspects |-> TRUE,
   fail |-> <<Lit("Failed to list hotspot users: "), Res>>,
   ok |-> <<Lit("Hotspot Users:\n\n"), Res>>]

\* add_hotspot_user with the password in its log line
mikrotik_add_hotspot_user_LogsPassword ==
  [name |-> "mikrotik_add_hotspot_user",
   params |-> <<Param("name", "str", TRUE), Param("password", "str", TRUE),
               Param("profile", "str", FALSE), Param("limit_uptime", "str", FALSE),
               Param("limit_bytes_total", "str", FALSE), Param("comment", "str", FALSE),
               Param("disabled", "bool", FALSE)>>,
   log |-> <<Lit("Adding hotspot user: name="), Var("name"), Lit(", password="), Var("password")>>,
   cmd |-> <<Lit("/ip hotspot user add name=\""), Var("name"), Lit("\" password=\""), Var("password"), Lit("\"")>>,
   chain |-> "if",
   opts |-> <<
     Opt("truthy", "profile", <<Lit(" profile=\""), Var("profile"), Lit("\"")>>),
     Opt("truthy", "limit_uptime", <<Lit(" limit-uptime="), Var("limit_uptime")>>),
     Opt("truthy", "limit_bytes_total", <<Lit(" limit-bytes-total="), Var("limit_bytes_total")>>),
     Opt("truthy", "comment", <<Lit(" comment=\""), Var("comment"), Lit("\"")>>),
     Opt("notnone", "disabled", <<Lit(" disabled="), YesNo("disabled")>>)
   >>,
   inspects |-> TRUE,
   fail |-> <<Lit("Failed to add hotspot user: "), Res>>,
   ok |-> <<Lit("Hotspot user '"), Var("name"), Lit("' added successfully")>>]

mikrotik_add_hotspot_user ==
  [name |-> "mikrotik_add_hotspot_user",
   params |-> <<Param("name", "str", TRUE), Param("password", "str", TRUE),
               Param("profile", "str", FALSE), Param("limit_uptime", "str", FALSE),
               Param("limit_bytes_total", "str", FALSE), Param("comment", "str", FALSE),
               Param("disabled", "bool", FALSE)>>,
   log |-> <<Lit("Adding hotspot user: name="), Var("name")>>,
   cmd |-> <<Lit("/ip hotspot user add name=\""), Var("name"), Lit("\" password=\""), Var("password"), Lit("\"")>>,
   chain |-> "if",
   opts |-> <<
     Opt("truthy", "profile", <<Lit(" profile=\""), Var("profile"), Lit("\"")>>),
     Opt("truthy", "limit_uptime", <<Lit(" limit-uptime="), Var("limit_uptime")>>),
     Opt("truthy", "limit_bytes_total", <<Lit(" limit-bytes-total="), Var("limit_bytes_total")>>),
     Opt("truthy", "comment", <<Lit(" comment=\""), Var("comment"), Lit("\"")>>),
     Opt("notnone", "disabled", <<Lit(" disabled="), YesNo("disabled")>>)
   >>,
   inspects |-> TRUE,
   fail |-> <<Lit("Failed to add hotspot user: "), Res>>,
   ok |-> <<Lit("Hotspot user '"), Var("name"), Lit("' added successfully")>>]

mikrotik_remove_hotspot_user ==
  [name |-> "mikrotik_remove_hotspot_user",
   params |-> <<Param("name", "str", TRUE)>>,
   log |-> <<Lit("Removing hotspot user: "), Var("name")>>,
   cmd |-> <<Lit("/ip hotspot user remove [find name=\""), Var("name"), Lit("\"]")>>,
   chain |-> "if",
   opts |-> <<>>,
   inspects |-> TRUE,
   fail |-> <<Lit("Failed to remove hotspot user: "), Res>>,
   ok |-> <<Lit("Hotspot user '"), Var("name"), Lit("' removed successfully")>>]

mikrotik_list_hotspot_active ==
  [name |-> "mikrotik_list_hotspot_active",
   params |-> <<>>,
   log |-> <<Lit("Listing active hotspot sessions")>>,
   cmd |-> <<Lit("/ip hotspot active print")>>,
   chain |-> "if",
   opts |-> <<>>,
   inspects |-> TRUE,
   fail |-> <<Lit("Failed to list active sessions: "), Res>>,
   ok |-> <<Lit("Active Hotspot Sessions:\n\n"), Res>>]

mikrotik_remove_hotspot_active ==
  [name |-> "mikrotik_remove_hotspot_active",
   params |-> <<Param("user", "str", TRUE)>>,
   log |-> <<Lit("Removing active hotspot session: "), Var("user")>>,
   cmd |-> <<Lit("/ip hotspot active remove [find user=\""), Var("user"), Lit("\"]")>>,
   chain |-> "if",
   opts |-> <<>>,
   inspects |-> TRUE,
   fail |-> <<Lit("Failed to remove active session: "), Res>>,
   ok |-> <<Lit("Active session for user '"), Var("user"), Lit("' removed successfully")>>]

\* ---- src/mcp_mikrotik/scope/ipsec.py ----

mikrotik_create_ipsec_peer ==
  [name |-> "mikrotik_create_ipsec_peer",
   params |-> <<Param("name", "str", TRUE), Param("address", "str", TRUE),
               Param("auth_method", "str", FALSE), Param("secret", "str", FALSE),
               Param("exchange_mode", "str", FALSE),
               Param("send_initial_contact", "bool", FALSE), Param("comment", "str", FALSE),
               Param("disabled", "bool", FALSE)>>,
   log |-> <<Lit("Creating IPsec peer: name="), Var("name"), Lit(", address="), Var("address")>>,
   cmd |-> <<Lit("/ip ipsec peer add name=\""), Var("name"), Lit("\" address=\""), Var("address"), Lit("\"")>>,
   chain |-> "if",
   opts |-> <<
     Opt("truthy", "auth_method", <<Lit(" auth-method="), Var("auth_method")>>),
     Opt("truthy", "secret", <<Lit(" secret=\""), Var("secret"), Lit("\"")>>),
     Opt("truthy", "exchange_mode", <<Lit(" exchange-mode="), Var("exchange_mode")>>),
     Opt("notnone", "send_initial_contact", <<Lit(" send-initial-contact="), YesNo("send_initial_contact")>>),
     Opt("truthy", "comment", <<Lit(" comment=\""), Var("comment"), Lit("\"")>>),
     Opt("notnone", "disabled", <<Lit(" disabled="), YesNo("disabled")>>)
   >>,
   inspects |-> TRUE,
   fail |-> <<Lit("Failed to create IPsec peer: "), Res>>,
   ok |-> <<Lit("IPsec peer '"), Var("name"), Lit("' created successfully")>>]

mikrotik_list_ipsec_peers ==
  [name |-> "mikrotik_list_ipsec_peers",
   params |-> <<>>,
   log |-> <<Lit("Listing IPsec peers")>>,
   cmd |-> <<Lit("/ip ipsec peer print")>>,
   chain |-> "if",
   opts |-> <<>>,
   inspects |-> TRUE,
   fail |-> <<Lit("Failed to list IPsec peers: "), Res>>,
   ok |-> <<Lit("IPsec Peers:\n\n"), Res>>]

mikrotik_remove_ipsec_peer ==
  [name |-> "mikrotik_remove_ipsec_peer",
   params |-> <<Param("name", "str", TRUE)>>,
   log |-> <<Lit("Removing IPsec peer: "), Var("name")>>,
   cmd |-> <<Lit("/ip ipsec peer remove [find name=\""), Var("name"), Lit("\"]")>>,
   chain |-> "if",
   opts |-> <<>>,
   inspects |-> TRUE,
   fail |-> <<Lit("Failed to remove IPsec peer: "), Res>>,
   ok |-> <<Lit("IPsec peer '"), Var("name"), Lit("' removed successfully")>>]

mikrotik_create_ipsec_proposal ==
  [name |-> "mikrotik_create_ipsec_proposal",
   params |-> <<Param("name", "str", TRUE), Param("auth_algorithms", "str", FALSE),
               Param("enc_algorithms", "str", FALSE), Param("lifetime", "str", FALSE),
               Param("pfs_group", "str", FALSE), Param("comment", "str", FALSE),
               Param("disabled", "bool", FALSE)>>,
   log |-> <<Lit("Creating IPsec proposal: name="), Var("name")>>,
   cmd |-> <<Lit("/ip ipsec proposal add name=\""), Var("name"), Lit("\"")>>,
   chain |-> "if",
   opts |-> <<
     Opt("truthy", "auth_algorithms", <<Lit(" auth-algorithms="), Var("auth_algorithms")>>),
     Opt("truthy", "enc_algorithms", <<Lit(" enc-algorithms="), Var("enc_algorithms")>>),
     Opt("truthy", "lifetime", <<Lit(" lifetime="), Var("lifetime")>>),
     Opt("truthy", "pfs_group", <<Lit(" pfs-group="), Var("pfs_group")>>),
     Opt("truthy", "comment", <<Lit(" comment=\""), Var("comment"), Lit("\"")>>),
     Opt("notnone", "disabled", <<Lit(" disabled="), YesNo("disabled")>>)
   >>,
   inspects |-> TRUE,
   fail |-> <<Lit("Failed to create IPsec proposal: "), Res>>,
   ok |-> <<Lit("IPsec proposal '"), Var("name"), Lit("' created successfully")>>]

mikrotik_list_ipsec_proposals ==
  [name |-> "mikrotik_list_ipsec_proposals",
   params |-> <<>>,
   log |-> <<Lit("Listing IPsec proposals")>>,
   cmd |-> <<Lit("/ip ipsec proposal print")>>,
   chain |-> "if",
   opts |-> <<>>,
   inspects |-> TRUE,
   fail |-> <<Lit("Failed to list IPsec proposals: "), Res>>,
   ok |-> <<Lit("IPsec Proposals:\n\n"), Res>>]

mikrotik_list_ipsec_installed_sa ==
  [name |-> "mikrotik_list_ipsec_installed_sa",
   params |-> <<>>,
   log |-> <<Lit("Listing IPsec installed SAs")>>,
   cmd |-> <<Lit("/ip ipsec installed-sa print")>>,
   chain |-> "if",
   opts |-> <<>>,
   inspects |-> TRUE,
   fail |-> <<Lit("Failed to list IPsec installed SAs: "), Res>>,
   ok |-> <<Lit("IPsec Installed SAs:\n\n"), Res>>]

mikrotik_create_ipsec_policy ==
  [name |-> "mikrotik_create_ipsec_policy",
   params |-> <<Param("src_address", "str", TRUE), Param("dst_address", "str", TRUE),
               Param("action", "str", FALSE), Param("proposal", "str", FALSE),
               Param("tunnel", "bool", FALSE), Param("comment", "str", FALSE),
               Param("disabled", "bool", FALSE)>>,
   log |-> <<Lit("Creating IPsec policy: src="), Var("src_address"), Lit(", dst="), Var("dst_address")>>,
   cmd |-> <<Lit("/ip ipsec policy add src-address=\""), Var("src_address"), Lit("\" dst-address=\""), Var("dst_address"), Lit("\"")>>,
   chain |-> "if",
   opts |-> <<
     Opt("truthy", "action", <<Lit(" action="), Var("action")>>),
     Opt("truthy", "proposal", <<Lit(" proposal=\""), Var("proposal"), Lit("\"")>>),
     Opt("notnone", "tunnel", <<Lit(" tunnel="), YesNo("tunnel")>>),
     Opt("truthy", "comment", <<Lit(" comment=\""), Var("comment"), Lit("\"")>>),
     Opt("notnone", "disabled", <<Lit(" disabled="), YesNo("disabled")>>)
   >>,
   inspects |-> TRUE,
   fail |-> <<Lit("Failed to create IPsec policy: "), Res>>,
   ok |-> <<Lit("IPsec policy created successfully")>>]

mikrotik_list_ipsec_policies ==
  [name |-> "mikrotik_list_ipsec_policies",
   params |-> <<>>,
   log |-> <<Lit("Listing IPsec policies")>>,
   cmd |-> <<Lit("/ip ipsec policy print")>>,
   chain |-> "if",
   opts |-> <<>>,
   inspects |-> TRUE,
   fail |-> <<Lit("Failed to list IPsec policies: "), Res>>,
   ok |-> <<Lit("IPsec Policies:\n\n"), Res>>]

\* ---- src/mcp_mikrotik/scope/ipv6.py ----

mikrotik_add_ipv6_address ==
  [name |-> "mikrotik_add_ipv6_address",
   params |-> <<Param("address", "str", TRUE), Param("interface", "str", TRUE),
               Param("advertise", "bool", FALSE), Param("eui_64", "bool", FALSE),
               Param("no_dad", "bool", FALSE), Param("comment", "str", FALSE),
               Param("disabled", "bool", FALSE)>>,
   log |-> <<Lit("Adding IPv6 address: address="), Var("address"), Lit(", interface="), Var("interface")>>,
   cmd |-> <<Lit("/ipv6 address add address=\""), Var("address"), Lit("\" interface=\""), Var("interface"), Lit("\"")>>,
   chain |-> "if",
   opts |-> <<
     Opt("notnone", "advertise", <<Lit(" advertise="), YesNo("advertise")>>),
     Opt("notnone", "eui_64", <<Lit(" eui-64="), YesNo("eui_64")>>),
     Opt("notnone", "no_dad", <<Lit(" no-dad="), YesNo("no_dad")>>),
     Opt("truthy", "comment", <<Lit(" comment=\""), Var("comment"), Lit("\"")>>),
     Opt("notnone", "disabled", <<Lit(" disabled="), YesNo("disabled")>>)
   >>,
   inspects |-> TRUE,
   fail |-> <<Lit("Failed to add IPv6 address: "), Res>>,
   ok |-> <<Lit("IPv6 address "), Var("address"), Lit(" added to "), Var("interface"), Lit(" successfully")>>]

mikrotik_list_ipv6_addresses ==
  [name |-> "mikrotik_list_ipv6_addresses",
   params |-> <<Param("interface_filter", "str", FALSE), Param("disabled_only", "bool", FALSE)>>,
   log |-> <<Lit("Listing IPv6 addresses")>>,
   cmd |-> <<Lit("/ipv6 address print")>>,
   chain |-> "elif",
   opts |-> <<
     Opt("truthy", "interface_filter", <<Lit(" where interface~\""), Var("interface_filter"), Lit("\"")>>),
     Opt("truthy", "disabled_only", <<Lit(" where disabled=yes")>>)
   >>,
   inspects |-> TRUE,
   fail |-> <<Lit("Failed to list IPv6 addresses: "), Res>>,
   ok |-> <<Lit("IPv6 Addresses:\n\n"), Res>>]

mikrotik_remove_ipv6_address ==
  [name |-> "mikrotik_remove_ipv6_address",
   params |-> <<Param("address_id", "str", TRUE)>>,
   log |-> <<Lit("Removing IPv6 address: "), Var("address_id")>>,
   cmd |-> <<Lit("/ipv6 address remove "), Var("address_id")>>,
   chain |-> "if",
   opts |-> <<>>,
   inspects |-> TRUE,
   fail |-> <<Lit("Failed to remove IPv6 address: "), Res>>,
   ok |-> <<Lit("IPv6 address "), Var("address_id"), Lit(" removed successfully")>>]

mikrotik_add_ipv6_route ==
  [name |-> "mikrotik_add_ipv6_route",
   params |-> <<Param("dst_address", "str", TRUE), Param("gateway", "str", TRUE),
               Param("distance", "int", FALSE), Param("comment", "str", FALSE),
               Param("disabled", "bool", FALSE)>>,
   log |-> <<Lit("Adding IPv6 route: dst="), Var("dst_address"), Lit(", gateway="), Var("gateway")>>,
   cmd |-> <<Lit("/ipv6 route add dst-address=\""), Var("dst_address"), Lit("\" gateway=\""), Var("gateway"), Lit("\"")>>,
   chain |-> "if",
   opts |-> <<
     Opt("notnone", "distance", <<Lit(" distance="), Var("distance")>>),
     Opt("truthy", "comment", <<Lit(" comment=\""), Var("comment"), Lit("\"")>>),
     Opt("notnone", "disabled", <<Lit(" disabled="), YesNo("disabled")>>)
   >>,
   inspects |-> TRUE,
   fail |-> <<Lit("Failed to add IPv6 route: "), Res>>,
   ok |-> <<Lit("IPv6 route to "), Var("dst_address"), Lit(" added successfully")>>]

\* list_ipv6_routes with the flag tested for presence and written as yes or no
mikrotik_list_ipv6_routes_ThreeWay ==
  [name |-> "mikrotik_list_ipv6_routes",
   params |-> <<Param("dst_filter", "str", FALSE), Param("gateway_filter", "str", FALSE),
               Param("active_only", "bool", FALSE)>>,
   log |-> <<Lit("Listing IPv6 routes")>>,
   cmd |-> <<Lit("/ipv6 route print")>>,
   chain |-> "elif",
   opts |-> <<
     Opt("truthy", "dst_filter", <<Lit(" where dst-address~\""), Var("dst_filter"), Lit("\"")>>),
     Opt("truthy", "gateway_filter", <<Lit(" where gateway~\""), Var("gateway_filter"), Lit("\"")>>),
     Opt("notnone", "active_only", <<Lit(" where active="), YesNo("active_only")>>)
   >>,
   inspects |-> TRUE,
   fail |-> <<Lit("Failed to list IPv6 routes: "), Res>>,
   ok |-> <<Lit("IPv6 Routes:\n\n"), Res>>]

mikrotik_list_ipv6_routes ==
  [name |-> "mikrotik_list_ipv6_routes",
   params |-> <<Param("dst_filter", "str", FALSE), Param("gateway_filter", "str", FALSE),
               Param("active_only", "bool", FALSE)>>,
   log |-> <<Lit("Listing IPv6 routes")>>,
   cmd |-> <<Lit("/ipv6 route print")>>,
   chain |-> "elif",
   opts |-> <<
     Opt("truthy", "dst_filter", <<Lit(" where dst-address~\""), Var("dst_filter"), Lit("\"")>>),
     Opt("truthy", "gateway_filter", <<Lit(" where gateway~\""), Var("gateway_filter"), Lit("\"")>>),
     Opt("truthy", "active_only", <<Lit(" where active=yes")>>)
   >>,
   inspects |-> TRUE,
   fail |-> <<Lit("Failed to list IPv6 routes: "), Res>>,
   ok |-> <<Lit("IPv6 Routes:\n\n"), Res>>]

mikrotik_remove_ipv6_route ==
  [name |-> "mikrotik_remove_ipv6_route",
   params |-> <<Param("route_id", "str", TRUE)>>,
   log |-> <<Lit("Removing IPv6 route: "), Var("route_id")>>,
   cmd |-> <<Lit("/ipv6 route remove "), Var("route_id")>>,
   chain |-> "if",
   opts |-> <<>>,
   inspects |-> TRUE,
   fail |-> <<Lit("Failed to remove IPv6 route: "), Res>>,
   ok |-> <<Lit("IPv6 route "), Var("route_id"), Lit(" removed successfully")>>]

mikrotik_list_ipv6_neighbors ==
  [name |-> "mikrotik_list_ipv6_neighbors",
   params |-> <<>>,
   log |-> <<Lit("Listing IPv6 neighbors")>>,
   cmd |-> <<Lit("/ipv6 neighbor print")>>,
   chain |-> "if",
   opts |-> <<>>,
   inspects |-> TRUE,
   fail |-> <<Lit("Failed to list IPv6 neighbors: "), Res>>,
   ok |-> <<Lit("IPv6 Neighbors:\n\n"), Res>>]

mikrotik_get_ipv6_settings ==
  [name |-> "mikrotik_get_ipv6_settings",
   params |-> <<>>,
   log |-> <<Lit("Getting IPv6 settings")>>,
   cmd |-> <<Lit("/ipv6 settings print")>>,
   chain |-> "if",
   opts |-> <<>>,
   inspects |-> TRUE,
   fail |-> <<Lit("Failed to get IPv6 settings: "), Res>>,
   ok |-> <<Lit("IPv6 Settings:\n\n"), Res>>]

mikrotik_set_ipv6_settings ==
  [name |-> "mikrotik_set_ipv6_settings",
   params |-> <<Param("accept_redirects", "bool", FALSE),
               Param("accept_router_advertisements", "bool", FALSE),
               Param("forward", "bool", FALSE), Param("max_neighbor_entries", "int", FALSE)>>,
   log |-> <<Lit("Setting IPv6 settings")>>,
   cmd |-> <<Lit("/ipv6 settings set")>>,
   chain |-> "if",
   opts |-> <<
     Opt("notnone", "accept_redirects", <<Lit(" accept-redirects="), YesNo("accept_redirects")>>),
     Opt("notnone", "accept_router_advertisements", <<Lit(" accept-router-advertisements="), YesNo("accept_router_advertisements")>>),
     Opt("notnone", "forward", <<Lit(" forward="), YesNo("forward")>>),
     Opt("notnone", "max_neighbor_entries", <<Lit(" max-neighbor-entries="), Var("max_neighbor_entries")>>)
   >>,
   inspects |-> TRUE,
   fail |-> <<Lit("Failed to set IPv6 settings: "), Res>>,
   ok |-> <<Lit("IPv6 settings configured successfully")>>]

\* ---- src/mcp_mikrotik/scope/pppoe.py ----

mikrotik_create_pppoe_server ==
  [name |-> "mikrotik_create_pppoe_server",
   params |-> <<Param("service_name", "str", TRUE), Param("interface", "str", TRUE),
               Param("default_profile", "str", FALSE), Param("authentication", "str", FALSE),
               Param("keepalive_timeout", "int", FALSE), Param("max_mtu", "int", FALSE),
               Param("max_mru", "int", FALSE), Param("one_session_per_host", "bool", FALSE),
               Param("disabled", "bool", FALSE)>>,
   log |-> <<Lit("Creating PPPoE server: service_name="), Var("service_name"), Lit(", interface="), Var("interface")>>,
   cmd |-> <<Lit("/interface pppoe-server server add service-name=\""), Var("service_name"), Lit("\" interface=\""), Var("interface"), Lit("\"")>>,
   chain |-> "if",
   opts |-> <<
     Opt("truthy", "default_profile", <<Lit(" default-profile=\""), Var("default_profile"), Lit("\"")>>),
     Opt("truthy", "authentication", <<Lit(" authentication="), Var("authentication")>>),
     Opt("notnone", "keepalive_timeout", <<Lit(" keepalive-timeout="), Var("keepalive_timeout")>>),
     Opt("notnone", "max_mtu", <<Lit(" max-mtu="), Var("max_mtu")>>),
     Opt("notnone", "max_mru", <<Lit(" max-mru="), Var("max_mru")>>),
     Opt("notnone", "one_session_per_host", <<Lit(" one-session-per-host="), YesNo("one_session_per_host")>>),
     Opt("notnone", "disabled", <<Lit(" disabled="), YesNo("disabled")>>)
   >>,
   inspects |-> TRUE,
   fail |-> <<Lit("Failed to create PPPoE server: "), Res>>,
   ok |-> <<Lit("PPPoE server '"), Var("service_name"), Lit("' created successfully")>>]

mikrotik_list_pppoe_servers ==
  [name |-> "mikrotik_list_pppoe_servers",
   params |-> <<>>,
   log |-> <<Lit("Listing PPPoE servers")>>,
   cmd |-> <<Lit("/interface pppoe-server server print")>>,
   chain |-> "if",
   opts |-> <<>>,
   inspects |-> TRUE,
   fail |-> <<Lit("Failed to list PPPoE servers: "), Res>>,
   ok |-> <<Lit("PPPoE Servers:\n\n"), Res>>]

mikrotik_remove_pppoe_server ==
  [name |-> "mikrotik_remove_pppoe_server",
   params |-> <<Param("service_name", "str", TRUE)>>,
   log |-> <<Lit("Removing PPPoE server: "), Var("service_name")>>,
   cmd |-> <<Lit("/interface pppoe-server server remove [find service-name=\""), Var("service_name"), Lit("\"]")>>,
   chain |-> "if",
   opts |-> <<>>,
   inspects |-> TRUE,
   fail |-> <<Lit("Failed to remove PPPoE server: "), Res>>,
   ok |-> <<Lit("PPPoE server '"), Var("service_name"), Lit("' removed successfully")>>]

mikrotik_add_ppp_secret ==
  [name |-> "mikrotik_add_ppp_secret",
   params |-> <<Param("name", "str", TRUE), Param("password", "str", TRUE),
               Param("service", "str", FALSE), Param("profile", "str", FALSE),
               Param("local_address", "str", FALSE), Param("remote_address", "str", FALSE),
               Param("routes", "str", FALSE), Param("limit_bytes_in", "str", FALSE),
               Param("limit_bytes_out", "str", FALSE), Param("comment", "str", FALSE),
               Param("disabled", "bool", FALSE)>>,
   log |-> <<Lit("Adding PPP secret: name="), Var("name")>>,
   cmd |-> <<Lit("/ppp secret add name=\""), Var("name"), Lit("\" password=\""), Var("password"), Lit("\"")>>,
   chain |-> "if",
   opts |-> <<
     Opt("truthy", "service", <<Lit(" service="), Var("service")>>),
     Opt("truthy", "profile", <<Lit(" profile=\""), Var("profile"), Lit("\"")>>),
     Opt("truthy", "local_address", <<Lit(" local-address=\""), Var("local_address"), Lit("\"")>>),
     Opt("truthy", "remote_address", <<Lit(" remote-address=\""), Var("remote_address"), Lit("\"")>>),
     Opt("truthy", "routes", <<Lit(" routes=\""), Var("routes"), Lit("\"")>>),
     Opt("truthy", "limit_bytes_in", <<Lit(" limit-bytes-in="), Var("limit_bytes_in")>>),
     Opt("truthy", "limit_bytes_out", <<Lit(" limit-bytes-out="), Var("limit_bytes_out")>>),
     Opt("truthy", "comment", <<Lit(" comment=\""), Var("comment"), Lit("\"")>>),
     Opt("notnone", "disabled", <<Lit(" disabled="), YesNo("disabled")>>)
   >>,
   inspects |-> TRUE,
   fail |-> <<Lit("Failed to add PPP secret: "), Res>>,
   ok |-> <<Lit("PPP secret '"), Var("name"), Lit("' added successfully")>>]

mikrotik_list_ppp_secrets ==
  [name |-> "mikrotik_list_ppp_secrets",
   params |-> <<Param("service_filter", "str", FALSE), Param("disabled_only", "bool", FALSE)>>,
   log |-> <<Lit("Listing PPP secrets")>>,
   cmd |-> <<Lit("/ppp secret print")>>,
   chain |-> "elif",
   opts |-> <<
     Opt("truthy", "service_filter", <<Lit(" where service="), Var("service_filter")>>),
     Opt("truthy", "disabled_only", <<Lit(" where disabled=yes")>>)
   >>,
   inspects |-> TRUE,
   fail |-> <<Lit("Failed to list PPP secrets: "), Res>>,
   ok |-> <<Lit("PPP Secrets:\n\n"), Res>>]

mikrotik_remove_ppp_secret ==
  [name |-> "mikrotik_remove_ppp_secret",
   params |-> <<Param("name", "str", TRUE)>>,
   log |-> <<Lit("Removing PPP secret: "), Var("name")>>,
   cmd |-> <<Lit("/ppp secret remove [find name=\""), Var("name"), Lit("\"]")>>,
   chain |-> "if",
   opts |-> <<>>,
   inspects |-> TRUE,
   fail |-> <<Lit("Failed to remove PPP secret: "), Res>>,
   ok |-> <<Lit("PPP secret '"), Var("name"), Lit("' removed successfully")>>]

mikrotik_list_ppp_active ==
  [name |-> "mikrotik_list_ppp_active",
   params |-> <<>>,
   log |-> <<Lit("Listing active PPP connections")>>,
   cmd |-> <<Lit("/ppp active print")>>,
   chain |-> "if",
   opts |-> <<>>,
   inspects |-> TRUE,
   fail |-> <<Lit("Failed to list active PPP connections: "), Res>>,
   ok |-> <<Lit("Active PPP Connections:\n\n"), Res>>]

\* disconnect_ppp_active with the name unquoted
mikrotik_disconnect_ppp_active_Unquoted ==
  [name |-> "mikrotik_disconnect_ppp_active",
   params |-> <<Param("name", "str", TRUE)>>,
   log |-> <<Lit("Disconnecting PPP user: "), Var("name")>>,
   cmd |-> <<Lit("/ppp active remove [find name="), Var("name"), Lit("]")>>,
   chain |-> "if",
   opts |-> <<>>,
   inspects |-> TRUE,
   fail |-> <<Lit("Failed to disconnect PPP user: "), Res>>,
   ok |-> <<Lit("PPP user '"), Var("name"), Lit("' disconnected successfully")>>]

mikrotik_disconnect_ppp_active ==
  [name |-> "mikrotik_disconnect_ppp_active",
   params |-> <<Param("name", "str", TRUE)>>,
   log |-> <<Lit("Disconnecting PPP user: "), Var("name")>>,
   cmd |-> <<Lit("/ppp active remove [find name=\""), Var("name"), Lit("\"]")>>,
   chain |-> "if",
   opts |-> <<>>,
   inspects |-> TRUE,
   fail |-> <<Lit("Failed to disconnect PPP user: "), Res>>,
   ok |-> <<Lit("PPP user '"), Var("name"), Lit("' disconnected successfully")>>]

mikrotik_create_ppp_profile ==
  [name |-> "mikrotik_create_ppp_profile",
   params |-> <<Param("name", "str", TRUE), Param("local_address", "str", FALSE),
               Param("remote_address", "str", FALSE), Param("dns_server", "str", FALSE),
               Param("wins_server", "str", FALSE), Param("use_compression", "bool", FALSE),
               Param("use_encryption", "bool", FALSE), Param("only_one", "bool", FALSE),
               Param("rate_limit", "str", FALSE), Param("comment", "str", FALSE)>>,
   log |-> <<Lit("Creating PPP profile: name="), Var("name")>>,
   cmd |-> <<Lit("/ppp profile add name=\""), Var("name"), Lit("\"")>>,
   chain |-> "if",
   opts |-> <<
     Opt("truthy", "local_address", <<Lit(" local-address=\""), Var("local_address"), Lit("\"")>>),
     Opt("truthy", "remote_address", <<Lit(" remote-address=\""), Var("remote_address"), Lit("\"")>>),
     Opt("truthy", "dns_server", <<Lit(" dns-server=\""), Var("dns_server"), Lit("\"")>>),
     Opt("truthy", "wins_server", <<Lit(" wins-server=\""), Var("wins_server"), Lit("\"")>>),
     Opt("notnone", "use_compression", <<Lit(" use-compression="), YesNo("use_compression")>>),
     Opt("notnone", "use_encryption", <<Lit(" use-encryption="), YesNo("use_encryption")>>),
     Opt("notnone", "only_one", <<Lit(" only-one="), YesNo("only_one")>>),
     Opt("truthy", "rate_limit", <<Lit(" rate-limit=\""), Var("rate_limit"), Lit("\"")>>),
     Opt("truthy", "comment", <<Lit(" comment=\""), Var("comment"), Lit("\"")>>)
   >>,
   inspects |-> TRUE,
   fail |-> <<Lit("Failed to create PPP profile: "), Res>>,
   ok |-> <<Lit("PPP profile '"), Var("name"), Lit("' created successfully")>>]

mikrotik_list_ppp_profiles ==
  [name |-> "mikrotik_list_ppp_profiles",
   params |-> <<>>,
   log |-> <<Lit("Listing PPP profiles")>>,
   cmd |-> <<Lit("/ppp profile print")>>,
   chain |-> "if",
   opts |-> <<>>,
   inspects |-> TRUE,
   fail |-> <<Lit("Failed to list PPP profiles: "), Res>>,
   ok |-> <<Lit("PPP Profiles:\n\n"), Res>>]

mikrotik_remove_ppp_profile ==
  [name |-> "mikrotik_remove_ppp_profile",
   params |-> <<Param("name", "str", TRUE)>>,
   log |-> <<Lit("Removing PPP profile: "), Var("name")>>,
   cmd |-> <<Lit("/ppp profile remove [find name=\""), Var("name"), Lit("\"]")>>,
   chain |-> "if",
   opts |-> <<>>,
   inspects |-> TRUE,
   fail |-> <<Lit("Failed to remove PPP profile: "), Res>>,
   ok |-> <<Lit("PPP profile '"), Var("name"), Lit("' removed successfully")>>]

mikrotik_create_pppoe_client ==
  [name |-> "mikrotik_create_pppoe_client",
   params |-> <<Param("name", "str", TRUE), Param("interface", "str", TRUE),
               Param("user", "str", TRUE), Param("password", "str", TRUE),
               Param("service_name", "str", FALSE), Param("add_default_route", "bool", FALSE),
               Param("use_peer_dns", "bool", FALSE), Param("profile", "str", FALSE),
               Param("comment", "str", FALSE), Param("disabled", "bool", FALSE)>>,
   log |-> <<Lit("Creating PPPoE client: name="), Var("name"), Lit(", interface="), Var("interface")>>,
   cmd |-> <<Lit("/interface pppoe-client add name=\""), Var("name"), Lit("\" interface=\""), Var("interface"), Lit("\" user=\""), Var("user"), Lit("\" password=\""), Var("password"), Lit("\"")>>,
   chain |-> "if",
   opts |-> <<
     Opt("truthy", "service_name", <<Lit(" service-name=\""), Var("service_name"), Lit("\"")>>),
     Opt("notnone", "add_default_route", <<Lit(" add-default-route="), YesNo("add_default_route")>>),
     Opt("notnone", "use_peer_dns", <<Lit(" use-peer-dns="), YesNo("use_peer_dns")>>),
     Opt("truthy", "profile", <<Lit(" profile=\""), Var("profile"), Lit("\"")>>),
     Opt("truthy", "comment", <<Lit(" comment=\""), Var("comment"), Lit("\"")>>),
     Opt("notnone", "disabled", <<Lit(" disabled="), YesNo("disabled")>>)
   >>,
   inspects |-> TRUE,
   fail |-> <<Lit("Failed to create PPPoE client: "), Res>>,
   ok |-> <<Lit("PPPoE client '"), Var("name"), Lit("' created successfully")>>]

mikrotik_list_pppoe_clients ==
  [name |-> "mikrotik_list_pppoe_clients",
   params |-> <<>>,
   log |-> <<Lit("Listing PPPoE clients")>>,
   cmd |-> <<Lit("/interface pppoe-client print")>>,
   chain |-> "if",
   opts |-> <<>>,
   inspects |-> TRUE,
   fail |-> <<Lit("Failed to list PPPoE clients: "), Res>>,
   ok |-> <<Lit("PPPoE Clients:\n\n"), Res>>]

mikrotik_remove_pppoe_client ==
  [name |-> "mikrotik_remove_pppoe_client",
   params |-> <<Param("name", "str", TRUE)>>,
   log |-> <<Lit("Removing PPPoE client: "), Var("name")>>,
   cmd |-> <<Lit("/interface pppoe-client remove [find name=\""), Var("name"), Lit("\"]")>>,
   chain |-> "if",
   opts |-> <<>>,
   inspects |-> TRUE,
   fail |-> <<Lit("Failed to remove PPPoE client: "), Res>>,
   ok |-> <<Lit("PPPoE client '"), Var("name"), Lit("' removed successfully")>>]

\* ---- src/mcp_mikrotik/scope/queue.py ----

mikrotik_create_simple_queue ==
  [name |-> "mikrotik_create_simple_queue",
   params |-> <<Param("name", "str", TRUE), Param("target", "str", TRUE),
               Param("max_limit", "str", TRUE), Param("burst_limit", "str", FALSE),
               Param("burst_threshold", "str", FALSE), Param("burst_time", "str", FALSE),
               Param("limit_at", "str", FALSE), Param("priority", "int", FALSE),
               Param("queue_type", "str", FALSE), Param("parent", "str", FALSE),
               Param("comment", "str", FALSE), Param("disabled", "bool", FALSE)>>,
   log |-> <<Lit("Creating simple queue: name="), Var("name"), Lit(", target="), Var("target")>>,
   cmd |-> <<Lit("/queue simple add name=\""), Var("name"), Lit("\" target=\""), Var("target"), Lit("\" max-limit="), Var("max_limit")>>,
   chain |-> "if",
   opts |-> <<
     Opt("truthy", "burst_limit", <<Lit(" burst-limit="), Var("burst_limit")>>),
     Opt("truthy", "burst_threshold", <<Lit(" burst-threshold="), Var("burst_threshold")>>),
     Opt("truthy", "burst_time", <<Lit(" burst-time="), Var("burst_time")>>),
     Opt("truthy", "limit_at", <<Lit(" limit-at="), Var("limit_at")>>),
     Opt("notnone", "priority", <<Lit(" priority="), Var("priority")>>),
     Opt("truthy", "queue_type", <<Lit(" queue="), Var("queue_type")>>),
     Opt("truthy", "parent", <<Lit(" parent=\""), Var("parent"), Lit("\"")>>),
     Opt("truthy", "comment", <<Lit(" comment=\""), Var("comment"), Lit("\"")>>),
     Opt("notnone", "disabled", <<Lit(" disabled="), YesNo("disabled")>>)
   >>,
   inspects |-> TRUE,
   fail |-> <<Lit("Failed to create simple queue: "), Res>>,
   ok |-> <<Lit("Simple queue '"), Var("name"), Lit("' created successfully")>>]

mikrotik_list_simple_queues ==
  [name |-> "mikrotik_list_simple_queues",
   params |-> <<Param("name_filter", "str", FALSE), Param("target_filter", "str", FALSE),
               Param("disabled_only", "bool", FALSE)>>,
   log |-> <<Lit("Listing simple queues")>>,
   cmd |-> <<Lit("/queue simple print")>>,
   chain |-> "elif",
   opts |-> <<
     Opt("truthy", "name_filter", <<Lit(" where name~\""), Var("name_filter"), Lit("\"")>>),
     Opt("truthy", "target_filter", <<Lit(" where target~\""), Var("target_filter"), Lit("\"")>>),
     Opt("truthy", "disabled_only", <<Lit(" where disabled=yes")>>)
   >>,
   inspects |-> TRUE,
   fail |-> <<Lit("Failed to list simple queues: "), Res>>,
   ok |-> <<Lit("Simple Queues:\n\n"), Res>>]

mikrotik_remove_simple_queue ==
  [name |-> "mikrotik_remove_simple_queue",
   params |-> <<Param("name", "str", TRUE)>>,
   log |-> <<Lit("Removing simple queue: "), Var("name")>>,
   cmd |-> <<Lit("/queue simple remove [find name=\""), Var("name"), Lit("\"]")>>,
   chain |-> "if",
   opts |-> <<>>,
   inspects |-> TRUE,
   fail |-> <<Lit("Failed to remove simple queue: "), Res>>,
   ok |-> <<Lit("Simple queue '"), Var("name"), Lit("' removed successfully")>>]

mikrotik_enable_simple_queue ==
  [name |-> "mikrotik_enable_simple_queue",
   params |-> <<Param("name", "str", TRUE)>>,
   log |-> <<Lit("Enabling simple queue: "), Var("name")>>,
   cmd |-> <<Lit("/queue simple enable [find name=\""), Var("name"), Lit("\"]")>>,
   chain |-> "if",
   opts |-> <<>>,
   inspects |-> TRUE,
   fail |-> <<Lit("Failed to enable simple queue: "), Res>>,
   ok |-> <<Lit("Simple queue '"), Var("name"), Lit("' enabled successfully")>>]

mikrotik_disable_simple_queue ==
  [name |-> "mikrotik_disable_simple_queue",
   params |-> <<Param("name", "str", TRUE)>>,
   log |-> <<Lit("Disabling simple queue: "), Var("name")>>,
   cmd |-> <<Lit("/queue simple disable [find name=\""), Var("name"), Lit("\"]")>>,
   chain |-> "if",
   opts |-> <<>>,
   inspects |-> TRUE,
   fail |-> <<Lit("Failed to disable simple queue: "), Res>>,
   ok |-> <<Lit("Simple queue '"), Var("name"), Lit("' disabled successfully")>>]

mikrotik_create_queue_tree ==
  [name |-> "mikrotik_create_queue_tree",
   params |-> <<Param("name", "str", TRUE), Param("parent", "str", TRUE),
               Param("max_limit", "str", TRUE), Param("burst_limit", "str", FALSE),
               Param("burst_threshold", "str", FALSE), Param("burst_time", "str", FALSE),
               Param("limit_at", "str", FALSE), Param("priority", "int", FALSE),
               Param("queue_type", "str", FALSE), Param("packet_mark", "str", FALSE),
               Param("comment", "str", FALSE), Param("disabled", "bool", FALSE)>>,
   log |-> <<Lit("Creating queue tree: name="), Var("name"), Lit(", parent="), Var("parent")>>,
   cmd |-> <<Lit("/queue tree add name=\""), Var("name"), Lit("\" parent=\""), Var("parent"), Lit("\" max-limit="), Var("max_limit")>>,
   chain |-> "if",
   opts |-> <<
     Opt("truthy", "burst_limit", <<Lit(" burst-limit="), Var("burst_limit")>>),
     Opt("truthy", "burst_threshold", <<Lit(" burst-threshold="), Var("burst_threshold")>>),
     Opt("truthy", "burst_time", <<Lit(" burst-time="), Var("burst_time")>>),
     Opt("truthy", "limit_at", <<Lit(" limit-at="), Var("limit_at")>>),
     Opt("notnone", "priority", <<Lit(" priority="), Var("priority")>>),
     Opt("truthy", "queue_type", <<Lit(" queue="), Var("queue_type")>>),
     Opt("truthy", "packet_mark", <<Lit(" packet-mark=\""), Var("packet_mark"), Lit("\"")>>),
     Opt("truthy", "comment", <<Lit(" comment=\""), Var("comment"), Lit("\"")>>),
     Opt("notnone", "disabled", <<Lit(" disabled="), YesNo("disabled")>>)
   >>,
   inspects |-> TRUE,
   fail |-> <<Lit("Failed to create queue tree: "), Res>>,
   ok |-> <<Lit("Queue tree '"), Var("name"), Lit("' created successfully")>>]

mikrotik_list_queue_tree ==
  [name |-> "mikrotik_list_queue_tree",
   params |-> <<Param("name_filter", "str", FALSE), Param("parent_filter", "str", FALSE),
               Param("disabled_only", "bool", FALSE)>>,
   log |-> <<Lit("Listing queue tree")>>,
   cmd |-> <<Lit("/queue tree print")>>,
   chain |-> "elif",
   opts |-> <<
     Opt("truthy", "name_filter", <<Lit(" where name~\""), Var("name_filter"), Lit("\"")>>),
     Opt("truthy", "parent_filter", <<Lit(" where parent~\""), Var("parent_filter"), Lit("\"")>>),
     Opt("truthy", "disabled_only", <<Lit(" where disabled=yes")>>)
   >>,
   inspects |-> TRUE,
   fail |-> <<Lit("Failed to list queue tree: "), Res>>,
   ok |-> <<Lit("Queue Tree:\n\n"), Res>>]

mikrotik_remove_queue_tree ==
  [name |-> "mikrotik_remove_queue_tree",
   params |-> <<Param("name", "str", TRUE)>>,
   log |-> <<Lit("Removing queue tree: "), Var("name")>>,
   cmd |-> <<Lit("/queue tree remove [find name=\""), Var("name"), Lit("\"]")>>,
   chain |-> "if",
   opts |-> <<>>,
   inspects |-> TRUE,
   fail |-> <<Lit("Failed to remove queue tree: "), Res>>,
   ok |-> <<Lit("Queue tree '"), Var("name"), Lit("' removed successfully")>>]

mikrotik_list_queue_types ==
  [name |-> "mikrotik_list_queue_types",
   params |-> <<>>,
   log |-> <<Lit("Listing queue types")>>,
   cmd |-> <<Lit("/queue type print")>>,
   chain |-> "if",
   opts |-> <<>>,
   inspects |-> TRUE,
   fail |-> <<Lit("Failed to list queue types: "), Res>>,
   ok |-> <<Lit("Queue Types:\n\n"), Res>>]

mikrotik_create_queue_type ==
  [name |-> "mikrotik_create_queue_type",
   params |-> <<Param("name", "str", TRUE), Param("kind", "str", TRUE),
               Param("pcq_rate", "str", FALSE), Param("pcq_limit", "str", FALSE),
               Param("pcq_classifier", "str", FALSE), Param("pcq_total_limit", "str", FALSE)>>,
   log |-> <<Lit("Creating queue type: name="), Var("name"), Lit(", kind="), Var("kind")>>,
   cmd |-> <<Lit("/queue type add name=\""), Var("name"), Lit("\" kind="), Var("kind")>>,
   chain |-> "if",
   opts |-> <<
     Opt("truthy", "pcq_rate", <<Lit(" pcq-rate="), Var("pcq_rate")>>),
     Opt("truthy", "pcq_limit", <<Lit(" pcq-limit="), Var("pcq_limit")>>),
     Opt("truthy", "pcq_classifier", <<Lit(" pcq-classifier="), Var("pcq_classifier")>>),
     Opt("truthy", "pcq_total_limit", <<Lit(" pcq-total-limit="), Var("pcq_total_limit")>>)
   >>,
   inspects |-> TRUE,
   fail |-> <<Lit("Failed to create queue type: "), Res>>,
   ok |-> <<Lit("Queue type '"), Var("name"), Lit("' created successfully")>>]

mikrotik_remove_queue_type ==
  [name |-> "mikrotik_remove_queue_type",
   params |-> <<Param("name", "str", TRUE)>>,
   log |-> <<Lit("Removing queue type: "), Var("name")>>,
   cmd |-> <<Lit("/queue type remove [find name=\""), Var("name"), Lit("\"]")>>,
   chain |-> "if",
   opts |-> <<>>,
   inspects |-> TRUE,
   fail |-> <<Lit("Failed to remove queue type: "), Res>>,
   ok |-> <<Lit("Queue type '"), Var("name"), Lit("' removed successfully")>>]

mikrotik_reset_queue_counters ==
  [name |-> "mikrotik_reset_queue_counters",
   params |-> <<>>,
   log |-> <<Lit("Resetting queue counters")>>,
   cmd |-> <<Lit("/queue simple reset-counters")>>,
   chain |-> "if",
   opts |-> <<>>,
   inspects |-> FALSE,
   fail |-> <<>>,
   ok |-> <<Lit("Queue counters reset successfully")>>]

\* ---- src/mcp_mikrotik/scope/routing_advanced.py ----

mikrotik_create_bgp_instance ==
  [name |-> "mikrotik_create_bgp_instance",
   params |-> <<Param("name", "str", TRUE), Param("as_number", "int", TRUE),
               Param("router_id", "str", FALSE),
               Param("redistribute_connected", "bool", FALSE),
               Param("redistribute_static", "bool", FALSE),
               Param("redistribute_ospf", "bool", FALSE),
               Param("client_to_client_reflection", "bool", FALSE),
               Param("comment", "str", FALSE), Param("disabled", "bool", FALSE)>>,
   log |-> <<Lit("Creating BGP instance: name="), Var("name"), Lit(", as="), Var("as_number")>>,
   cmd |-> <<Lit("/routing bgp instance add name=\""), Var("name"), Lit("\" as="), Var("as_number")>>,
   chain |-> "if",
   opts |-> <<
     Opt("truthy", "router_id", <<Lit(" router-id=\""), Var("router_id"), Lit("\"")>>),
     Opt("notnone", "redistribute_connected", <<Lit(" redistribute-connected="), YesNo("redistribute_connected")>>),
     Opt("notnone", "redistribute_static", <<Lit(" redistribute-static="), YesNo("redistribute_static")>>),
     Opt("notnone", "redistribute_ospf", <<Lit(" redistribute-ospf="), YesNo("redistribute_ospf")>>),
     Opt("notnone", "client_to_client_reflection", <<Lit(" client-to-client-reflection="), YesNo("client_to_client_reflection")>>),
     Opt("truthy", "comment", <<Lit(" comment=\""), Var("comment"), Lit("\"")>>),
     Opt("notnone", "disabled", <<Lit(" disabled="), YesNo("disabled")>>)
   >>,
   inspects |-> TRUE,
   fail |-> <<Lit("Failed to create BGP instance: "), Res>>,
   ok |-> <<Lit("BGP instance '"), Var("name"), Lit("' created successfully")>>]

mikrotik_list_bgp_instances ==
  [name |-> "mikrotik_list_bgp_instances",
   params |-> <<>>,
   log |-> <<Lit("Listing BGP instances")>>,
   cmd |-> <<Lit("/routing bgp instance print")>>,
   chain |-> "if",
   opts |-> <<>>,
   inspects |-> TRUE,
   fail |-> <<Lit("Failed to list BGP instances: "), Res>>,
   ok |-> <<Lit("BGP Instances:\n\n"), Res>>]

mikrotik_remove_bgp_instance ==
  [name |-> "mikrotik_remove_bgp_instance",
   params |-> <<Param("name", "str", TRUE)>>,
   log |-> <<Lit("Removing BGP instance: "), Var("name")>>,
   cmd |-> <<Lit("/routing bgp instance remove [find name=\""), Var("name"), Lit("\"]")>>,
   chain |-> "if",
   opts |-> <<>>,
   inspects |-> TRUE,
   fail |-> <<Lit("Failed to remove BGP instance: "), Res>>,
   ok |-> <<Lit("BGP instance '"), Var("name"), Lit("' removed successfully")>>]

mikrotik_add_bgp_peer ==
  [name |-> "mikrotik_add_bgp_peer",
   params |-> <<Param("name", "str", TRUE), Param("instance", "str", TRUE),
               Param("remote_address", "str", TRUE), Param("remote_as", "int", TRUE),
               Param("ttl", "int", FALSE), Param("multihop", "bool", FALSE),
               Param("route_reflect", "bool", FALSE), Param("hold_time", "str", FALSE),
               Param("tcp_md5_key", "str", FALSE), Param("update_source", "str", FALSE),
               Param("comment", "str", FALSE), Param("disabled", "bool", FALSE)>>,
   log |-> <<Lit("Adding BGP peer: name="), Var("name"), Lit(", remote_address="), Var("remote_address")>>,
   cmd |-> <<Lit("/routing bgp peer add name=\""), Var("name"), Lit("\" instance=\""), Var("instance"), Lit("\" remote-address=\""), Var("remote_address"), Lit("\" remote-as="), Var("remote_as")>>,
   chain |-> "if",
   opts |-> <<
     Opt("notnone", "ttl", <<Lit(" ttl="), Var("ttl")>>),
     Opt("notnone", "multihop", <<Lit(" multihop="), YesNo("multihop")>>),
     Opt("notnone", "route_reflect", <<Lit(" route-reflect="), YesNo("route_reflect")>>),
     Opt("truthy", "hold_time", <<Lit(" hold-time="), Var("hold_time")>>),
     Opt("truthy", "tcp_md5_key", <<Lit(" tcp-md5-key=\""), Var("tcp_md5_key"), Lit("\"")>>),
     Opt("truthy", "update_source", <<Lit(" update-source=\""), Var("update_source"), Lit("\"")>>),
     Opt("truthy", "comment", <<Lit(" comment=\""), Var("comment"), Lit("\"")>>),
     Opt("notnone", "disabled", <<Lit(" disabled="), YesNo("disabled")>>)
   >>,
   inspects |-> TRUE,
   fail |-> <<Lit("Failed to add BGP peer: "), Res>>,
   ok |-> <<Lit("BGP peer '"), Var("name"), Lit("' added successfully")>>]

mikrotik_list_bgp_peers ==
  [name |-> "mikrotik_list_bgp_peers",
   params |-> <<>>,
   log |-> <<Lit("Listing BGP peers")>>,
   cmd |-> <<Lit("/routing bgp peer print")>>,
   chain |-> "if",
   opts |-> <<>>,
   inspects |-> TRUE,
   fail |-> <<Lit("Failed to list BGP peers: "), Res>>,
   ok |-> <<Lit("BGP Peers:\n\n"), Res>>]

mikrotik_remove_bgp_peer ==
  [name |-> "mikrotik_remove_bgp_peer",
   params |-> <<Param("name", "str", TRUE)>>,
   log |-> <<Lit("Removing BGP peer: "), Var("name")>>,
   cmd |-> <<Lit("/routing bgp peer remove [find name=\""), Var("name"), Lit("\"]")>>,
   chain |-> "if",
   opts |-> <<>>,
   inspects |-> TRUE,
   fail |-> <<Lit("Failed to remove BGP peer: "), Res>>,
   ok |-> <<Lit("BGP peer '"), Var("name"), Lit("' removed successfully")>>]

mikrotik_list_bgp_advertisements ==
  [name |-> "mikrotik_list_bgp_advertisements",
   params |-> <<>>,
   log |-> <<Lit("Listing BGP advertisements")>>,
   cmd |-> <<Lit("/routing bgp advertisements print")>>,
   chain |-> "if",
   opts |-> <<>>,
   inspects |-> TRUE,
   fail |-> <<Lit("Failed to list BGP advertisements: "), Res>>,
   ok |-> <<Lit("BGP Advertisements:\n\n"), Res>>]

mikrotik_create_ospf_instance ==
  [name |-> "mikrotik_create_ospf_instance",
   params |-> <<Param("name", "str", TRUE), Param("router_id", "str", FALSE),
               Param("redistribute_connected", "bool", FALSE),
               Param("redistribute_static", "bool", FALSE),
               Param("redistribute_bgp", "bool", FALSE), Param("comment", "str", FALSE),
               Param("disabled", "bool", FALSE)>>,
   log |-> <<Lit("Creating OSPF instance: name="), Var("name")>>,
   cmd |-> <<Lit("/routing ospf instance add name=\""), Var("name"), Lit("\"")>>,
   chain |-> "if",
   opts |-> <<
     Opt("truthy", "router_id", <<Lit(" router-id=\""), Var("router_id"), Lit("\"")>>),
     Opt("notnone", "redistribute_connected", <<Lit(" redistribute-connected="), YesNo("redistribute_connected")>>),
     Opt("notnone", "redistribute_static", <<Lit(" redistribute-static="), YesNo("redistribute_static")>>),
     Opt("notnone", "redistribute_bgp", <<Lit(" redistribute-bgp="), YesNo("redistribute_bgp")>>),
     Opt("truthy", "comment", <<Lit(" comment=\""), Var("comment"), Lit("\"")>>),
     Opt("notnone", "disabled", <<Lit(" disabled="), YesNo("disabled")>>)
   >>,
   inspects |-> TRUE,
   fail |-> <<Lit("Failed to create OSPF instance: "), Res>>,
   ok |-> <<Lit("OSPF instance '"), Var("name"), Lit("' created successfully")>>]

mikrotik_list_ospf_instances ==
  [name |-> "mikrotik_list_ospf_instances",
   params |-> <<>>,
   log |-> <<Lit("Listing OSPF instances")>>,
   cmd |-> <<Lit("/routing ospf instance print")>>,
   chain |-> "if",
   opts |-> <<>>,
   inspects |-> TRUE,
   fail |-> <<Lit("Failed to list OSPF instances: "), Res>>,
   ok |-> <<Lit("OSPF Instances:\n\n"), Res>>]

mikrotik_remove_ospf_instance ==
  [name |-> "mikrotik_remove_ospf_instance",
   params |-> <<Param("name", "str", TRUE)>>,
   log |-> <<Lit("Removing OSPF instance: "), Var("name")>>,
   cmd |-> <<Lit("/routing ospf instance remove [find name=\""), Var("name"), Lit("\"]")>>,
   chain |-> "if",
   opts |-> <<>>,
   inspects |-> TRUE,
   fail |-> <<Lit("Failed to remove OSPF instance: "), Res>>,
   ok |-> <<Lit("OSPF instance '"), Var("name"), Lit("' removed successfully")>>]

mikrotik_add_ospf_area ==
  [name |-> "mikrotik_add_ospf_area",
   params |-> <<Param("name", "str", TRUE), Param("area_id", "str", TRUE),
               Param("instance", "str", FALSE), Param("type", "str", FALSE),
               Param("comment", "str", FALSE), Param("disabled", "bool", FALSE)>>,
   log |-> <<Lit("Adding OSPF area: name="), Var("name"), Lit(", area_id="), Var("area_id")>>,
   cmd |-> <<Lit("/routing ospf area add name=\""), Var("name"), Lit("\" area-id=\""), Var("area_id"), Lit("\"")>>,
   chain |-> "if",
   opts |-> <<
     Opt("truthy", "instance", <<Lit(" instance=\""), Var("instance"), Lit("\"")>>),
     Opt("truthy", "type", <<Lit(" type="), Var("type")>>),
     Opt("truthy", "comment", <<Lit(" comment=\""), Var("comment"), Lit("\"")>>),
     Opt("notnone", "disabled", <<Lit(" disabled="), YesNo("disabled")>>)
   >>,
   inspects |-> TRUE,
   fail |-> <<Lit("Failed to add OSPF area: "), Res>>,
   ok |-> <<Lit("OSPF area '"), Var("name"), Lit("' added successfully")>>]

mikrotik_list_ospf_areas ==
  [name |-> "mikrotik_list_ospf_areas",
   params |-> <<>>,
   log |-> <<Lit("Listing OSPF areas")>>,
   cmd |-> <<Lit("/routing ospf area print")>>,
   chain |-> "if",
   opts |-> <<>>,
   inspects |-> TRUE,
   fail |-> <<Lit("Failed to list OSPF areas: "), Res>>,
   ok |-> <<Lit("OSPF Areas:\n\n"), Res>>]

mikrotik_add_ospf_network ==
  [name |-> "mikrotik_add_ospf_network",
   params |-> <<Param("network", "str", TRUE), Param("area", "str", TRUE),
               Param("comment", "str", FALSE), Param("disabled", "bool", FALSE)>>,
   log |-> <<Lit("Adding OSPF network: network="), Var("network"), Lit(", area="), Var("area")>>,
   cmd |-> <<Lit("/routing ospf network add network=\""), Var("network"), Lit("\" area=\""), Var("area"), Lit("\"")>>,
   chain |-> "if",
   opts |-> <<
     Opt("truthy", "comment", <<Lit(" comment=\""), Var("comment"), Lit("\"")>>),
     Opt("notnone", "disabled", <<Lit(" disabled="), YesNo("disabled")>>)
   >>,
   inspects |-> TRUE,
   fail |-> <<Lit("Failed to add OSPF network: "), Res>>,
   ok |-> <<Lit("OSPF network '"), Var("network"), Lit("' added successfully")>>]

mikrotik_list_ospf_networks ==
  [name |-> "mikrotik_list_ospf_networks",
   params |-> <<>>,
   log |-> <<Lit("Listing OSPF networks")>>,
   cmd |-> <<Lit("/routing ospf network print")>>,
   chain |-> "if",
   opts |-> <<>>,
   inspects |-> TRUE,
   fail |-> <<Lit("Failed to list OSPF networks: "), Res>>,
   ok |-> <<Lit("OSPF Networks:\n\n"), Res>>]

mikrotik_list_ospf_neighbors ==
  [name |-> "mikrotik_list_ospf_neighbors",
   params |-> <<>>,
   log |-> <<Lit("Listing OSPF neighbors")>>,
   cmd |-> <<Lit("/routing ospf neighbor print")>>,
   chain |-> "if",
   opts |-> <<>>,
   inspects |-> TRUE,
   fail |-> <<Lit("Failed to list OSPF neighbors: "), Res>>,
   ok |-> <<Lit("OSPF Neighbors:\n\n"), Res>>]

mikrotik_add_ospf_interface ==
  [name |-> "mikrotik_add_ospf_interface",
   params |-> <<Param("interface", "str", TRUE), Param("network_type", "str", FALSE),
               Param("priority", "int", FALSE), Param("cost", "int", FALSE),
               Param("authentication", "str", FALSE),
               Param("authentication_key", "str", FALSE), Param("comment", "str", FALSE),
               Param("disabled", "bool", FALSE)>>,
   log |-> <<Lit("Adding OSPF interface: interface="), Var("interface")>>,
   cmd |-> <<Lit("/routing ospf interface add interface=\""), Var("interface"), Lit("\"")>>,
   chain |-> "if",
   opts |-> <<
     Opt("truthy", "network_type", <<Lit(" network-type="), Var("network_type")>>),
     Opt("notnone", "priority", <<Lit(" priority="), Var("priority")>>),
     Opt("notnone", "cost", <<Lit(" cost="), Var("cost")>>),
     Opt("truthy", "authentication", <<Lit(" authentication="), Var("authentication")>>),
     Opt("truthy", "authentication_key", <<Lit(" authentication-key=\""), Var("authentication_key"), Lit("\"")>>),
     Opt("truthy", "comment", <<Lit(" comment=\""), Var("comment"), Lit("\"")>>),
     Opt("notnone", "disabled", <<Lit(" disabled="), YesNo("disabled")>>)
   >>,
   inspects |-> TRUE,
   fail |-> <<Lit("Failed to add OSPF interface: "), Res>>,
   ok |-> <<Lit("OSPF interface '"), Var("interface"), Lit("' added successfully")>>]

mikrotik_list_ospf_interfaces ==
  [name |-> "mikrotik_list_ospf_interfaces",
   params |-> <<>>,
   log |-> <<Lit("Listing OSPF interfaces")>>,
   cmd |-> <<Lit("/routing ospf interface print")>>,
   chain |-> "if",
   opts |-> <<>>,
   inspects |-> TRUE,
   fail |-> <<Lit("Failed to list OSPF interfaces: "), Res>>,
   ok |-> <<Lit("OSPF Interfaces:\n\n"), Res>>]

mikrotik_create_rip_instance ==
  [name |-> "mikrotik_create_rip_instance",
   params |-> <<Param("name", "str", TRUE), Param("redistribute_connected", "bool", FALSE),
               Param("redistribute_static", "bool", FALSE),
               Param("redistribute_ospf", "bool", FALSE),
               Param("redistribute_bgp", "bool", FALSE), Param("comment", "str", FALSE),
               Param("disabled", "bool", FALSE)>>,
   log |-> <<Lit("Creating RIP instance: name="), Var("name")>>,
   cmd |-> <<Lit("/routing rip instance add name=\""), Var("name"), Lit("\"")>>,
   chain |-> "if",
   opts |-> <<
     Opt("notnone", "redistribute_connected", <<Lit(" redistribute-connected="), YesNo("redistribute_connected")>>),
     Opt("notnone", "redistribute_static", <<Lit(" redistribute-static="), YesNo("redistribute_static")>>),
     Opt("notnone", "redistribute_ospf", <<Lit(" redistribute-ospf="), YesNo("redistribute_ospf")>>),
     Opt("notnone", "redistribute_bgp", <<Lit(" redistribute-bgp="), YesNo("redistribute_bgp")>>),
     Opt("truthy", "comment", <<Lit(" comment=\""), Var("comment"), Lit("\"")>>),
     Opt("notnone", "disabled", <<Lit(" disabled="), YesNo("disabled")>>)
   >>,
   inspects |-> TRUE,
   fail |-> <<Lit("Failed to create RIP instance: "), Res>>,
   ok |-> <<Lit("RIP instance '"), Var("name"), Lit("' created successfully")>>]

mikrotik_list_rip_instances ==
  [name |-> "mikrotik_list_rip_instances",
   params |-> <<>>,
   log |-> <<Lit("Listing RIP instances")>>,
   cmd |-> <<Lit("/routing rip instance print")>>,
   chain |-> "if",
   opts |-> <<>>,
   inspects |-> TRUE,
   fail |-> <<Lit("Failed to list RIP instances: "), Res>>,
   ok |-> <<Lit("RIP Instances:\n\n"), Res>>]

mikrotik_remove_rip_instance ==
  [name |-> "mikrotik_remove_rip_instance",
   params |-> <<Param("name", "str", TRUE)>>,
   log |-> <<Lit("Removing RIP instance: "), Var("name")>>,
   cmd |-> <<Lit("/routing rip instance remove [find name=\""), Var("name"), Lit("\"]")>>,
   chain |-> "if",
   opts |-> <<>>,
   inspects |-> TRUE,
   fail |-> <<Lit("Failed to remove RIP instance: "), Res>>,
   ok |-> <<Lit("RIP instance '"), Var("name"), Lit("' removed successfully")>>]

mikrotik_add_rip_network ==
  [name |-> "mikrotik_add_rip_network",
   params |-> <<Param("network", "str", TRUE), Param("instance", "str", FALSE),
               Param("comment", "str", FALSE), Param("disabled", "bool", FALSE)>>,
   log |-> <<Lit("Adding RIP network: network="), Var("network")>>,
   cmd |-> <<Lit("/routing rip network add network=\""), Var("network"), Lit("\"")>>,
   chain |-> "if",
   opts |-> <<
     Opt("truthy", "instance", <<Lit(" instance=\""), Var("instance"), Lit("\"")>>),
     Opt("truthy", "comment", <<Lit(" comment=\""), Var("comment"), Lit("\"")>>),
     Opt("notnone", "disabled", <<Lit(" disabled="), YesNo("disabled")>>)
   >>,
   inspects |-> TRUE,
   fail |-> <<Lit("Failed to add RIP network: "), Res>>,
   ok |-> <<Lit("RIP network '"), Var("network"), Lit("' added successfully")>>]

mikrotik_list_rip_networks ==
  [name |-> "mikrotik_list_rip_networks",
   params |-> <<>>,
   log |-> <<Lit("Listing RIP networks")>>,
   cmd |-> <<Lit("/routing rip network print")>>,
   chain |-> "if",
   opts |-> <<>>,
   inspects |-> TRUE,
   fail |-> <<Lit("Failed to list RIP networks: "), Res>>,
   ok |-> <<Lit("RIP Networks:\n\n"), Res>>]

mikrotik_add_rip_interface ==
  [name |-> "mikrotik_add_rip_interface",
   params |-> <<Param("interface", "str", TRUE), Param("receive", "str", FALSE),
               Param("send", "str", FALSE), Param("authentication", "str", FALSE),
               Param("authentication_key", "str", FALSE), Param("comment", "str", FALSE),
               Param("disabled", "bool", FALSE)>>,
   log |-> <<Lit("Adding RIP interface: interface="), Var("interface")>>,
   cmd |-> <<Lit("/routing rip interface add interface=\""), Var("interface"), Lit("\"")>>,
   chain |-> "if",
   opts |-> <<
     Opt("truthy", "receive", <<Lit(" receive="), Var("receive")>>),
     Opt("truthy", "send", <<Lit(" send="), Var("send")>>),
     Opt("truthy", "authentication", <<Lit(" authentication="), Var("authentication")>>),
     Opt("truthy", "authentication_key", <<Lit(" authentication-key=\""), Var("authentication_key"), Lit("\"")>>),
     Opt("truthy", "comment", <<Lit(" comment=\""), Var("comment"), Lit("\"")>>),
     Opt("notnone", "disabled", <<Lit(" disabled="), YesNo("disabled")>>)
   >>,
   inspects |-> TRUE,
   fail |-> <<Lit("Failed to add RIP interface: "), Res>>,
   ok |-> <<Lit("RIP interface '"), Var("interface"), Lit("' added successfully")>>]

mikrotik_list_rip_interfaces ==
  [name |-> "mikrotik_list_rip_interfaces",
   params |-> <<>>,
   log |-> <<Lit("Listing RIP interfaces")>>,
   cmd |-> <<Lit("/routing rip interface print")>>,
   chain |-> "if",
   opts |-> <<>>,
   inspects |-> TRUE,
   fail |-> <<Lit("Failed to list RIP interfaces: "), Res>>,
   ok |-> <<Lit("RIP Interfaces:\n\n"), Res>>]

mikrotik_list_rip_neighbors ==
  [name |-> "mikrotik_list_rip_neighbors",
   params |-> <<>>,
   log |-> <<Lit("Listing RIP neighbors")>>,
   cmd |-> <<Lit("/routing rip neighbor print")>>,
   chain |-> "if",
   opts |-> <<>>,
   inspects |-> TRUE,
   fail |-> <<Lit("Failed to list RIP neighbors: "), Res>>,
   ok |-> <<Lit("RIP Neighbors:\n\n"), Res>>]

\* ---- src/mcp_mikrotik/scope/snmp.py ----

mikrotik_get_snmp_settings ==
  [name |-> "mikrotik_get_snmp_settings",
   params |-> <<>>,
   log |-> <<Lit("Getting SNMP settings")>>,
   cmd |-> <<Lit("/snmp print")>>,
   chain |-> "if",
   opts |-> <<>>,
   inspects |-> TRUE,
   fail |-> <<Lit("Failed to get SNMP settings: "), Res>>,
   ok |-> <<Lit("SNMP Settings:\n\n"), Res>>]

mikrotik_set_snmp_settings ==
  [name |-> "mikrotik_set_snmp_settings",
   params |-> <<Param("enabled", "bool", FALSE), Param("contact", "str", FALSE),
               Param("location", "str", FALSE), Param("engine_id", "str", FALSE),
               Param("trap_version", "int", FALSE), Param("trap_community", "str", FALSE),
               Param("trap_generators", "str", FALSE)>>,
   log |-> <<Lit("Setting SNMP settings")>>,
   cmd |-> <<Lit("/snmp set")>>,
   chain |-> "if",
   opts |-> <<
     Opt("notnone", "enabled", <<Lit(" enabled="), YesNo("enabled")>>),
     Opt("truthy", "contact", <<Lit(" contact=\""), Var("contact"), Lit("\"")>>),
     Opt("truthy", "location", <<Lit(" location=\""), Var("location"), Lit("\"")>>),
     Opt("truthy", "engine_id", <<Lit(" engine-id=\""), Var("engine_id"), Lit("\"")>>),
     Opt("notnone", "trap_version", <<Lit(" trap-version="), Var("trap_version")>>),
     Opt("truthy", "trap_community", <<Lit(" trap-community=\""), Var("trap_community"), Lit("\"")>>),
     Opt("truthy", "trap_generators", <<Lit(" trap-generators=\""), Var("trap_generators"), Lit("\"")>>)
   >>,
   inspects |-> TRUE,
   fail |-> <<Lit("Failed to set SNMP settings: "), Res>>,
   ok |-> <<Lit("SNMP settings configured successfully")>>]

mikrotik_list_snmp_communities ==
  [name |-> "mikrotik_list_snmp_communities",
   params |-> <<>>,
   log |-> <<Lit("Listing SNMP communities")>>,
   cmd |-> <<Lit("/snmp community print")>>,
   chain |-> "if",
   opts |-> <<>>,
   inspects |-> TRUE,
   fail |-> <<Lit("Failed to list SNMP communities: "), Res>>,
   ok |-> <<Lit("SNMP Communities:\n\n"), Res>>]

mikrotik_add_snmp_community ==
  [name |-> "mikrotik_add_snmp_community",
   params |-> <<Param("name", "str", TRUE), Param("addresses", "str", FALSE),
               Param("read_access", "bool", FALSE), Param("write_access", "bool", FALSE),
               Param("authentication_protocol", "str", FALSE),
               Param("authentication_password", "str", FALSE),
               Param("encryption_protocol", "str", FALSE),
               Param("encryption_password", "str", FALSE), Param("comment", "str", FALSE),
               Param("disabled", "bool", FALSE)>>,
   log |-> <<Lit("Adding SNMP community: name="), Var("name")>>,
   cmd |-> <<Lit("/snmp community add name=\""), Var("name"), Lit("\"")>>,
   chain |-> "if",
   opts |-> <<
     Opt("truthy", "addresses", <<Lit(" addresses=\""), Var("addresses"), Lit("\"")>>),
     Opt("notnone", "read_access", <<Lit(" read-access="), YesNo("read_access")>>),
     Opt("notnone", "write_access", <<Lit(" write-access="), YesNo("write_access")>>),
     Opt("truthy", "authentication_protocol", <<Lit(" authentication-protocol="), Var("authentication_protocol")>>),
     Opt("truthy", "authentication_password", <<Lit(" authentication-password=\""), Var("authentication_password"), Lit("\"")>>),
     Opt("truthy", "encryption_protocol", <<Lit(" encryption-protocol="), Var("encryption_protocol")>>),
     Opt("truthy", "encryption_password", <<Lit(" encryption-password=\""), Var("encryption_password"), Lit("\"")>>),
     Opt("truthy", "comment", <<Lit(" comment=\""), Var("comment"), Lit("\"")>>),
     Opt("notnone", "disabled", <<Lit(" disabled="), YesNo("disabled")>>)
   >>,
   inspects |-> TRUE,
   fail |-> <<Lit("Failed to add SNMP community: "), Res>>,
   ok |-> <<Lit("SNMP community '"), Var("name"), Lit("' added successfully")>>]

mikrotik_remove_snmp_community ==
  [name |-> "mikrotik_remove_snmp_community",
   params |-> <<Param("name", "str", TRUE)>>,
   log |-> <<Lit("Removing SNMP community: "), Var("name")>>,
   cmd |-> <<Lit("/snmp community remove [find name=\""), Var("name"), Lit("\"]")>>,
   chain |-> "if",
   opts |-> <<>>,
   inspects |-> TRUE,
   fail |-> <<Lit("Failed to remove SNMP community: "), Res>>,
   ok |-> <<Lit("SNMP community '"), Var("name"), Lit("' removed successfully")>>]

\* ---- src/mcp_mikrotik/scope/system.py ----

mikrotik_get_system_resource ==
  [name |-> "mikrotik_get_system_resource",
   params |-> <<>>,
   log |-> <<Lit("Getting system resource information")>>,
   cmd |-> <<Lit("/system resource print")>>,
   chain |-> "if",
   opts |-> <<>>,
   inspects |-> TRUE,
   fail |-> <<Lit("Failed to get system resources: "), Res>>,
   ok |-> <<Lit("System Resources:\n\n"), Res>>]

mikrotik_get_system_health ==
  [name |-> "mikrotik_get_system_health",
   params |-> <<>>,
   log |-> <<Lit("Getting system health information")>>,
   cmd |-> <<Lit("/system health print")>>,
   chain |-> "if",
   opts |-> <<>>,
   inspects |-> TRUE,
   fail |-> <<Lit("Failed to get system health: "), Res>>,
   ok |-> <<Lit("System Health:\n\n"), Res>>]

mikrotik_get_system_identity ==
  [name |-> "mikrotik_get_system_identity",
   params |-> <<>>,
   log |-> <<Lit("Getting system identity")>>,
   cmd |-> <<Lit("/system identity print")>>,
   chain |-> "if",
   opts |-> <<>>,
   inspects |-> TRUE,
   fail |-> <<Lit("Failed to get system identity: "), Res>>,
   ok |-> <<Lit("System Identity:\n\n"), Res>>]

mikrotik_set_system_identity ==
  [name |-> "mikrotik_set_system_identity",
   params |-> <<Param("name", "str", TRUE)>>,
   log |-> <<Lit("Setting system identity: name="), Var("name")>>,
   cmd |-> <<Lit("/system identity set name=\""), Var("name"), Lit("\"")>>,
   chain |-> "if",
   opts |-> <<>>,
   inspects |-> TRUE,
   fail |-> <<Lit("Failed to set system identity: "), Res>>,
   ok |-> <<Lit("System identity set to '"), Var("name"), Lit("' successfully")>>]

mikrotik_get_system_clock ==
  [name |-> "mikrotik_get_system_clock",
   params |-> <<>>,
   log |-> <<Lit("Getting system clock")>>,
   cmd |-> <<Lit("/system clock print")>>,
   chain |-> "if",
   opts |-> <<>>,
   inspects |-> TRUE,
   fail |-> <<Lit("Failed to get system clock: "), Res>>,
   ok |-> <<Lit("System Clock:\n\n"), Res>>]

mikrotik_set_system_clock ==
  [name |-> "mikrotik_set_system_clock",
   params |-> <<Param("time_zone_name", "str", FALSE),
               Param("time_zone_autodetect", "bool", FALSE)>>,
   log |-> <<Lit("Setting system clock: timezone="), Var("time_zone_name")>>,
   cmd |-> <<Lit("/system clock set")>>,
   chain |-> "if",
   opts |-> <<
     Opt("truthy", "time_zone_name", <<Lit(" time-zone-name=\""), Var("time_zone_name"), Lit("\"")>>),
     Opt("notnone", "time_zone_autodetect", <<Lit(" time-zone-autodetect="), YesNo("time_zone_autodetect")>>)
   >>,
   inspects |-> TRUE,
   fail |-> <<Lit("Failed to set system clock: "), Res>>,
   ok |-> <<Lit("System clock configured successfully")>>]

mikrotik_get_ntp_client ==
  [name |-> "mikrotik_get_ntp_client",
   params |-> <<>>,
   log |-> <<Lit("Getting NTP client configuration")>>,
   cmd |-> <<Lit("/system ntp client print")>>,
   chain |-> "if",
   opts |-> <<>>,
   inspects |-> TRUE,
   fail |-> <<Lit("Failed to get NTP client: "), Res>>,
   ok |-> <<Lit("NTP Client Configuration:\n\n"), Res>>]

mikrotik_set_ntp_client ==
  [name |-> "mikrotik_set_ntp_client",
   params |-> <<Param("enabled", "bool", FALSE), Param("servers", "list", FALSE),
               Param("mode", "str", FALSE)>>,
   log |-> <<Lit("Setting NTP client: enabled="), Var("enabled"), Lit(", servers="), Var("servers")>>,
   cmd |-> <<Lit("/system ntp client set")>>,
   chain |-> "if",
   opts |-> <<
     Opt("notnone", "enabled", <<Lit(" enabled="), YesNo("enabled")>>),
     Opt("truthy", "servers", <<Lit(" servers=\""), Joined("servers"), Lit("\"")>>),
     Opt("truthy", "mode", <<Lit(" mode="), Var("mode")>>)
   >>,
   inspects |-> TRUE,
   fail |-> <<Lit("Failed to set NTP client: "), Res>>,
   ok |-> <<Lit("NTP client configured successfully")>>]

\* system_reboot with the usual test of the response
mikrotik_system_reboot_Inspecting ==
  [name |-> "mikrotik_system_reboot",
   params |-> <<>>,
   log |-> <<Lit("Initiating system reboot")>>,
   cmd |-> <<Lit("/system reboot")>>,
   chain |-> "if",
   opts |-> <<>>,
   inspects |-> TRUE,
   fail |-> <<Lit("Failed to reboot: "), Res>>,
   ok |-> <<Lit("System reboot initiated")>>]

mikrotik_system_reboot ==
  [name |-> "mikrotik_system_reboot",
   params |-> <<>>,
   log |-> <<Lit("Initiating system reboot")>>,
   cmd |-> <<Lit("/system reboot")>>,
   chain |-> "if",
   opts |-> <<>>,
   inspects |-> FALSE,
   fail |-> <<>>,
   ok |-> <<Lit("System reboot initiated")>>]

mikrotik_system_shutdown ==
  [name |-> "mikrotik_system_shutdown",
   params |-> <<>>,
   log |-> <<Lit("Initiating system shutdown")>>,
   cmd |-> <<Lit("/system shutdown")>>,
   chain |-> "if",
   opts |-> <<>>,
   inspects |-> FALSE,
   fail |-> <<>>,
   ok |-> <<Lit("System shutdown initiated")>>]

mikrotik_list_packages ==
  [name |-> "mikrotik_list_packages",
   params |-> <<>>,
   log |-> <<Lit("Listing system packages")>>,
   cmd |-> <<Lit("/system package print")>>,
   chain |-> "if",
   opts |-> <<>>,
   inspects |-> TRUE,
   fail |-> <<Lit("Failed to list packages: "), Res>>,
   ok |-> <<Lit("Installed Packages:\n\n"), Res>>]

mikrotik_enable_package ==
  [name |-> "mikrotik_enable_package",
   params |-> <<Param("package_name", "str", TRUE)>>,
   log |-> <<Lit("Enabling package: "), Var("package_name")>>,
   cmd |-> <<Lit("/system package enable [find name=\""), Var("package_name"), Lit("\"]")>>,
   chain |-> "if",
   opts |-> <<>>,
   inspects |-> TRUE,
   fail |-> <<Lit("Failed to enable package: "), Res>>,
   ok |-> <<Lit("Package '"), Var("package_name"), Lit("' enabled successfully (reboot required)")>>]

mikrotik_disable_package ==
  [name |-> "mikrotik_disable_package",
   params |-> <<Param("package_name", "str", TRUE)>>,
   log |-> <<Lit("Disabling package: "), Var("package_name")>>,
   cmd |-> <<Lit("/system package disable [find name=\""), Var("package_name"), Lit("\"]")>>,
   chain |-> "if",
   opts |-> <<>>,
   inspects |-> TRUE,
   fail |-> <<Lit("Failed to disable package: "), Res>>,
   ok |-> <<Lit("Package '"), Var("package_name"), Lit("' disabled successfully (reboot required)")>>]

mikrotik_list_scheduler ==
  [name |-> "mikrotik_list_scheduler",
   params |-> <<>>,
   log |-> <<Lit("Listing scheduled tasks")>>,
   cmd |-> <<Lit("/system scheduler print")>>,
   chain |-> "if",
   opts |-> <<>>,
   inspects |-> TRUE,
   fail |-> <<Lit("Failed to list scheduler: "), Res>>,
   ok |-> <<Lit("Scheduled Tasks:\n\n"), Res>>]

mikrotik_add_scheduler ==
  [name |-> "mikrotik_add_scheduler",
   params |-> <<Param("name", "str", TRUE), Param("on_event", "str", TRUE),
               Param("start_date", "str", FALSE), Param("start_time", "str", FALSE),
               Param("interval", "str", FALSE), Param("policy", "str", FALSE),
               Param("comment", "str", FALSE), Param("disabled", "bool", FALSE)>>,
   log |-> <<Lit("Adding scheduler task: name="), Var("name")>>,
   cmd |-> <<Lit("/system scheduler add name=\""), Var("name"), Lit("\" on-event=\""), Var("on_event"), Lit("\"")>>,
   chain |-> "if",
   opts |-> <<
     Opt("truthy", "start_date", <<Lit(" start-date=\""), Var("start_date"), Lit("\"")>>),
     Opt("truthy", "start_time", <<Lit(" start-time=\""), Var("start_time"), Lit("\"")>>),
     Opt("truthy", "interval", <<Lit(" interval="), Var("interval")>>),
     Opt("truthy", "policy", <<Lit(" policy="), Var("policy")>>),
     Opt("truthy", "comment", <<Lit(" comment=\""), Var("comment"), Lit("\"")>>),
     Opt("notnone", "disabled", <<Lit(" disabled="), YesNo("disabled")>>)
   >>,
   inspects |-> TRUE,
   fail |-> <<Lit("Failed to add scheduler task: "), Res>>,
   ok |-> <<Lit("Scheduler task '"), Var("name"), Lit("' added successfully")>>]

mikrotik_remove_scheduler ==
  [name |-> "mikrotik_remove_scheduler",
   params |-> <<Param("name", "str", TRUE)>>,
   log |-> <<Lit("Removing scheduler task: "), Var("name")>>,
   cmd |-> <<Lit("/system scheduler remove [find name=\""), Var("name"), Lit("\"]")>>,
   chain |-> "if",
   opts |-> <<>>,
   inspects |-> TRUE,
   fail |-> <<Lit("Failed to remove scheduler task: "), Res>>,
   ok |-> <<Lit("Scheduler task '"), Var("name"), Lit("' removed successfully")>>]

mikrotik_list_scripts ==
  [name |-> "mikrotik_list_scripts",
   params |-> <<>>,
   log |-> <<Lit("Listing system scripts")>>,
   cmd |-> <<Lit("/system script print")>>,
   chain |-> "if",
   opts |-> <<>>,
   inspects |-> TRUE,
   fail |-> <<Lit("Failed to list scripts: "), Res>>,
   ok |-> <<Lit("System Scripts:\n\n"), Res>>]

mikrotik_add_script ==
  [name |-> "mikrotik_add_script",
   params |-> <<Param("name", "str", TRUE), Param("source", "str", TRUE),
               Param("policy", "str", FALSE), Param("comment", "str", FALSE),
               Param("dont_require_permissions", "bool", FALSE)>>,
   log |-> <<Lit("Adding script: name="), Var("name")>>,
   cmd |-> <<Lit("/system script add name=\""), Var("name"), Lit("\" source=\""), Escaped("source"), Lit("\"")>>,
   chain |-> "if",
   opts |-> <<
     Opt("truthy", "policy", <<Lit(" policy="), Var("policy")>>),
     Opt("truthy", "comment", <<Lit(" comment=\""), Var("comment"), Lit("\"")>>),
     Opt("notnone", "dont_require_permissions", <<Lit(" dont-require-permissions="), YesNo("dont_require_permissions")>>)
   >>,
   inspects |-> TRUE,
   fail |-> <<Lit("Failed to add script: "), Res>>,
   ok |-> <<Lit("Script '"), Var("name"), Lit("' added successfully")>>]

mikrotik_run_script ==
  [name |-> "mikrotik_run_script",
   params |-> <<Param("name", "str", TRUE)>>,
   log |-> <<Lit("Running script: "), Var("name")>>,
   cmd |-> <<Lit("/system script run [find name=\""), Var("name"), Lit("\"]")>>,
   chain |-> "if",
   opts |-> <<>>,
   inspects |-> TRUE,
   fail |-> <<Lit("Failed to run script: "), Res>>,
   ok |-> <<Lit("Script '"), Var("name"), Lit("' executed:\n\n"), Res>>]

mikrotik_remove_script ==
  [name |-> "mikrotik_remove_script",
   params |-> <<Param("name", "str", TRUE)>>,
   log |-> <<Lit("Removing script: "), Var("name")>>,
   cmd |-> <<Lit("/system script remove [find name=\""), Var("name"), Lit("\"]")>>,
   chain |-> "if",
   opts |-> <<>>,
   inspects |-> TRUE,
   fail |-> <<Lit("Failed to remove script: "), Res>>,
   ok |-> <<Lit("Script '"), Var("name"), Lit("' removed successfully")>>]

mikrotik_get_system_routerboard ==
  [name |-> "mikrotik_get_system_routerboard",
   params |-> <<>>,
   log |-> <<Lit("Getting RouterBOARD information")>>,
   cmd |-> <<Lit("/system routerboard print")>>,
   chain |-> "if",
   opts |-> <<>>,
   inspects |-> TRUE,
   fail |-> <<Lit("Failed to get RouterBOARD info: "), Res>>,
   ok |-> <<Lit("RouterBOARD Information:\n\n"), Res>>]

mikrotik_get_system_license ==
  [name |-> "mikrotik_get_system_license",
   params |-> <<>>,
   log |-> <<Lit("Getting system license")>>,
   cmd |-> <<Lit("/system license print")>>,
   chain |-> "if",
   opts |-> <<>>,
   inspects |-> TRUE,
   fail |-> <<Lit("Failed to get license info: "), Res>>,
   ok |-> <<Lit("System License:\n\n"), Res>>]

mikrotik_get_system_history ==
  [name |-> "mikrotik_get_system_history",
   params |-> <<>>,
   log |-> <<Lit("Getting system history")>>,
   cmd |-> <<Lit("/system history print")>>,
   chain |-> "if",
   opts |-> <<>>,
   inspects |-> TRUE,
   fail |-> <<Lit("Failed to get history: "), Res>>,
   ok |-> <<Lit("System History:\n\n"), Res>>]

\* The domain functions, by name.
OpNames ==
  {"mikrotik_create_bridge", "mikrotik_list_bridges", "mikrotik_remove_bridge",
   "mikrotik_add_bridge_port", "mikrotik_list_bridge_ports", "mikrotik_remove_bridge_port",
   "mikrotik_add_bridge_vlan", "mikrotik_list_bridge_vlans", "mikrotik_get_bridge_host",
   "mikrotik_list_certificates", "mikrotik_create_certificate", "mikrotik_sign_certificate",
   "mikrotik_import_certificate", "mikrotik_export_certificate", "mikrotik_remove_certificate",
   "mikrotik_enable_ssl_certificate", "mikrotik_create_hotspot_server",
   "mikrotik_list_hotspot_servers", "mikrotik_list_hotspot_users", "mikrotik_add_hotspot_user",
   "mikrotik_remove_hotspot_user", "mikrotik_list_hotspot_active",
   "mikrotik_remove_hotspot_active", "mikrotik_create_ipsec_peer", "mikrotik_list_ipsec_peers",
   "mikrotik_remove_ipsec_peer", "mikrotik_create_ipsec_proposal", "mikrotik_list_ipsec_proposals",
   "mikrotik_list_ipsec_installed_sa", "mikrotik_create_ipsec_policy",
   "mikrotik_list_ipsec_policies", "mikrotik_add_ipv6_address", "mikrotik_list_ipv6_addresses",
   "mikrotik_remove_ipv6_address", "mikrotik_add_ipv6_route", "mikrotik_list_ipv6_routes",
   "mikrotik_remove_ipv6_route", "mikrotik_list_ipv6_neighbors", "mikrotik_get_ipv6_settings",
   "mikrotik_set_ipv6_settings", "mikrotik_create_pppoe_server", "mikrotik_list_pppoe_servers",
   "mikrotik_remove_pppoe_server", "mikrotik_add_ppp_secret", "mikrotik_list_ppp_secrets",
   "mikrotik_remove_ppp_secret", "mikrotik_list_ppp_active", "mikrotik_disconnect_ppp_active",
   "mikrotik_create_ppp_profile", "mikrotik_list_ppp_profiles", "mikrotik_remove_ppp_profile",
   "mikrotik_create_pppoe_client", "mikrotik_list_pppoe_clients", "mikrotik_remove_pppoe_client",
   "mikrotik_create_simple_queue", "mikrotik_list_simple_queues", "mikrotik_remove_simple_queue",
   "mikrotik_enable_simple_queue", "mikrotik_disable_simple_queue", "mikrotik_create_queue_tree",
   "mikrotik_list_queue_tree", "mikrotik_remove_queue_tree", "mikrotik_list_queue_types",
   "mikrotik_create_queue_type", "mikrotik_remove_queue_type", "mikrotik_reset_queue_counters",
   "mikrotik_create_bgp_instance", "mikrotik_list_bgp_instances", "mikrotik_remove_bgp_instance",
   "mikrotik_add_bgp_peer", "mikrotik_list_bgp_peers", "mikrotik_remove_bgp_peer",
   "mikrotik_list_bgp_advertisements", "mikrotik_create_ospf_instance",
   "mikrotik_list_ospf_instances", "mikrotik_remove_ospf_instance", "mikrotik_add_ospf_area",
   "mikrotik_list_ospf_areas", "mikrotik_add_ospf_network", "mikrotik_list_ospf_networks",
   "mikrotik_list_ospf_neighbors", "mikrotik_add_ospf_interface", "mikrotik_list_ospf_interfaces",
   "mikrotik_create_rip_instance", "mikrotik_list_rip_instances", "mikrotik_remove_rip_instance",
   "mikrotik_add_rip_network", "mikrotik_list_rip_networks", "mikrotik_add_rip_interface",
   "mikrotik_list_rip_interfaces", "mikrotik_list_rip_neighbors", "mikrotik_get_snmp_settings",
   "mikrotik_set_snmp_settings", "mikrotik_list_snmp_communities", "mikrotik_add_snmp_community",
   "mikrotik_remove_snmp_community", "mikrotik_get_system_resource", "mikrotik_get_system_health",
   "mikrotik_get_system_identity", "mikrotik_set_system_identity", "mikrotik_get_system_clock",
   "mikrotik_set_system_clock", "mikrotik_get_ntp_client", "mikrotik_set_ntp_client",
   "mikrotik_system_reboot", "mikrotik_system_shutdown", "mikrotik_list_packages",
   "mikrotik_enable_package", "mikrotik_disable_package", "mikrotik_list_scheduler",
   "mikrotik_add_scheduler", "mikrotik_remove_scheduler", "mikrotik_list_scripts",
   "mikrotik_add_script", "mikrotik_run_script", "mikrotik_remove_script",
   "mikrotik_get_system_routerboard", "mikrotik_get_system_license", "mikrotik_get_system_history"}

Op(n) ==
  CASE n = "mikrotik_create_bridge" -> mikrotik_create_bridge
    [] n = "mikrotik_list_bridges" -> mikrotik_list_bridges
    [] n = "mikrotik_remove_bridge" -> mikrotik_remove_bridge
    [] n = "mikrotik_add_bridge_port" -> mikrotik_add_bridge_port
    [] n = "mikrotik_list_bridge_ports" -> mikrotik_list_bridge_ports
    [] n = "mikrotik_remove_bridge_port" -> mikrotik_remove_bridge_port
    [] n = "mikrotik_add_bridge_vlan" -> mikrotik_add_bridge_vlan
    [] n = "mikrotik_list_bridge_vlans" -> mikrotik_list_bridge_vlans
    [] n = "mikrotik_get_bridge_host" -> mikrotik_get_bridge_host
    [] n = "mikrotik_list_certificates" -> mikrotik_list_certificates
    [] n = "mikrotik_create_certificate" -> mikrotik_create_certificate
    [] n = "mikrotik_sign_certificate" -> mikrotik_sign_certificate
    [] n = "mikrotik_import_certificate" -> mikrotik_import_certificate
    [] n = "mikrotik_export_certificate" -> mikrotik_export_certificate
    [] n = "mikrotik_remove_certificate" -> mikrotik_remove_certificate
    [] n = "mikrotik_enable_ssl_certificate" -> mikrotik_enable_ssl_certificate
    [] n = "mikrotik_create_hotspot_server" -> mikrotik_create_hotspot_server
    [] n = "mikrotik_list_hotspot_servers" -> mikrotik_list_hotspot_servers
    [] n = "mikrotik_list_hotspot_users" -> mikrotik_list_hotspot_users
    [] n = "mikrotik_add_hotspot_user" -> mikrotik_add_hotspot_user
    [] n = "mikrotik_remove_hotspot_user" -> mikrotik_remove_hotspot_user
    [] n = "mikrotik_list_hotspot_active" -> mikrotik_list_hotspot_active
    [] n = "mikrotik_remove_hotspot_active" -> mikrotik_remove_hotspot_active
    [] n = "mikrotik_create_ipsec_peer" -> mikrotik_create_ipsec_peer
    [] n = "mikrotik_list_ipsec_peers" -> mikrotik_list_ipsec_peers
    [] n = "mikrotik_remove_ipsec_peer" -> mikrotik_remove_ipsec_peer
    [] n = "mikrotik_create_ipsec_proposal" -> mikrotik_create_ipsec_proposal
    [] n = "mikrotik_list_ipsec_proposals" -> mikrotik_list_ipsec_proposals
    [] n = "mikrotik_list_ipsec_installed_sa" -> mikrotik_list_ipsec_installed_sa
    [] n = "mikrotik_create_ipsec_policy" -> mikrotik_create_ipsec_policy
    [] n = "mikrotik_list_ipsec_policies" -> mikrotik_list_ipsec_policies
    [] n = "mikrotik_add_ipv6_address" -> mikrotik_add_ipv6_address
    [] n = "mikrotik_list_ipv6_addresses" -> mikrotik_list_ipv6_addresses
    [] n = "mikrotik_remove_ipv6_address" -> mikrotik_remove_ipv6_address
    [] n = "mikrotik_add_ipv6_route" -> mikrotik_add_ipv6_route
    [] n = "mikrotik_list_ipv6_routes" -> mikrotik_list_ipv6_routes
    [] n = "mikrotik_remove_ipv6_route" -> mikrotik_remove_ipv6_route
    [] n = "mikrotik_list_ipv6_neighbors" -> mikrotik_list_ipv6_neighbors
    [] n = "mikrotik_get_ipv6_settings" -> mikrotik_get_ipv6_settings
    [] n = "mikrotik_set_ipv6_settings" -> mikrotik_set_ipv6_settings
    [] n = "mikrotik_create_pppoe_server" -> mikrotik_create_pppoe_server
    [] n = "mikrotik_list_pppoe_servers" -> mikrotik_list_pppoe_servers
    [] n = "mikrotik_remove_pppoe_server" -> mikrotik_remove_pppoe_server
    [] n = "mikrotik_add_ppp_secret" -> mikrotik_add_ppp_secret
    [] n = "mikrotik_list_ppp_secrets" -> mikrotik_list_ppp_secrets
    [] n = "mikrotik_remove_ppp_secret" -> mikrotik_remove_ppp_secret
    [] n = "mikrotik_list_ppp_active" -> mikrotik_list_ppp_active
    [] n = "mikrotik_disconnect_ppp_active" -> mikrotik_disconnect_ppp_active
    [] n = "mikrotik_create_ppp_profile" -> mikrotik_create_ppp_profile
    [] n = "mikrotik_list_ppp_profiles" -> mikrotik_list_ppp_profiles
    [] n = "mikrotik_remove_ppp_profile" -> mikrotik_remove_ppp_profile
    [] n = "mikrotik_create_pppoe_client" -> mikrotik_create_pppoe_client
    [] n = "mikrotik_list_pppoe_clients" -> mikrotik_list_pppoe_clients
    [] n = "mikrotik_remove_pppoe_client" -> mikrotik_remove_pppoe_client
    [] n = "mikrotik_create_simple_queue" -> mikrotik_create_simple_queue
    [] n = "mikrotik_list_simple_queues" -> mikrotik_list_simple_queues
    [] n = "mikrotik_remove_simple_queue" -> mikrotik_remove_simple_queue
    [] n = "mikrotik_enable_simple_queue" -> mikrotik_enable_simple_queue
    [] n = "mikrotik_disable_simple_queue" -> mikrotik_disable_simple_queue
    [] n = "mikrotik_create_queue_tree" -> mikrotik_create_queue_tree
    [] n = "mikrotik_list_queue_tree" -> mikrotik_list_queue_tree
    [] n = "mikrotik_remove_queue_tree" -> mikrotik_remove_queue_tree
    [] n = "mikrotik_list_queue_types" -> mikrotik_list_queue_types
    [] n = "mikrotik_create_queue_type" -> mikrotik_create_queue_type
    [] n = "mikrotik_remove_queue_type" -> mikrotik_remove_queue_type
    [] n = "mikrotik_reset_queue_counters" -> mikrotik_reset_queue_counters
    [] n = "mikrotik_create_bgp_instance" -> mikrotik_create_bgp_instance
    [] n = "mikrotik_list_bgp_instances" -> mikrotik_list_bgp_instances
    [] n = "mikrotik_remove_bgp_instance" -> mikrotik_remove_bgp_instance
    [] n = "mikrotik_add_bgp_peer" -> mikrotik_add_bgp_peer
    [] n = "mikrotik_list_bgp_peers" -> mikrotik_list_bgp_peers
    [] n = "mikrotik_remove_bgp_peer" -> mikrotik_remove_bgp_peer
    [] n = "mikrotik_list_bgp_advertisements" -> mikrotik_list_bgp_advertisements
    [] n = "mikrotik_create_ospf_instance" -> mikrotik_create_ospf_instance
    [] n = "mikrotik_list_ospf_instances" -> mikrotik_list_ospf_instances
    [] n = "mikrotik_remove_ospf_instance" -> mikrotik_remove_ospf_instance
    [] n = "mikrotik_add_ospf_area" -> mikrotik_add_ospf_area
    [] n = "mikrotik_list_ospf_areas" -> mikrotik_list_ospf_areas
    [] n = "mikrotik_add_ospf_network" -> mikrotik_add_ospf_network
    [] n = "mikrotik_list_ospf_networks" -> mikrotik_list_ospf_networks
    [] n = "mikrotik_list_ospf_neighbors" -> mikrotik_list_ospf_neighbors
    [] n = "mikrotik_add_ospf_interface" -> mikrotik_add_ospf_interface
    [] n = "mikrotik_list_ospf_interfaces" -> mikrotik_list_ospf_interfaces
    [] n = "mikrotik_create_rip_instance" -> mikrotik_create_rip_instance
    [] n = "mikrotik_list_rip_instances" -> mikrotik_list_rip_instances
    [] n = "mikrotik_remove_rip_instance" -> mikrotik_remove_rip_instance
    [] n = "mikrotik_add_rip_network" -> mikrotik_add_rip_network
    [] n = "mikrotik_list_rip_networks" -> mikrotik_list_rip_networks
    [] n = "mikrotik_add_rip_interface" -> mikrotik_add_rip_interface
    [] n = "mikrotik_list_rip_interfaces" -> mikrotik_list_rip_interfaces
    [] n = "mikrotik_list_rip_neighbors" -> mikrotik_list_rip_neighbors
    [] n = "mikrotik_get_snmp_settings" -> mikrotik_get_snmp_settings
    [] n = "mikrotik_set_snmp_settings" -> mikrotik_set_snmp_settings
    [] n = "mikrotik_list_snmp_communities" -> mikrotik_list_snmp_communities
    [] n = "mikrotik_add_snmp_community" -> mikrotik_add_snmp_community
    [] n = "mikrotik_remove_snmp_community" -> mikrotik_remove_snmp_community
    [] n = "mikrotik_get_system_resource" -> mikrotik_get_system_resource
    [] n = "mikrotik_get_system_health" -> mikrotik_get_system_health
    [] n = "mikrotik_get_system_identity" -> mikrotik_get_system_identity
    [] n = "mikrotik_set_system_identity" -> mikrotik_set_system_identity
    [] n = "mikrotik_get_system_clock" -> mikrotik_get_system_clock
    [] n = "mikrotik_set_system_clock" -> mikrotik_set_system_clock
    [] n = "mikrotik_get_ntp_client" -> mikrotik_get_ntp_client
    [] n = "mikrotik_set_ntp_client" -> mikrotik_set_ntp_client
    [] n = "mikrotik_system_reboot" -> mikrotik_system_reboot
    [] n = "mikrotik_system_shutdown" -> mikrotik_system_shutdown
    [] n = "mikrotik_list_packages" -> mikrotik_list_packages
    [] n = "mikrotik_enable_package" -> mikrotik_enable_package
    [] n = "mikrotik_disable_package" -> mikrotik_disable_package
    [] n = "mikrotik_list_scheduler" -> mikrotik_list_scheduler
    [] n = "mikrotik_add_scheduler" -> mikrotik_add_scheduler
    [] n = "mikrotik_remove_scheduler" -> mikrotik_remove_scheduler
    [] n = "mikrotik_list_scripts" -> mikrotik_list_scripts
    [] n = "mikrotik_add_script" -> mikrotik_add_script
    [] n = "mikrotik_run_script" -> mikrotik_run_script
    [] n = "mikrotik_remove_script" -> mikrotik_remove_script
    [] n = "mikrotik_get_system_routerboard" -> mikrotik_get_system_routerboard
    [] n = "mikrotik_get_system_license" -> mikrotik_get_system_license
    [] n = "mikrotik_get_system_history" -> mikrotik_get_system_history
\* ---- src/mcp_mikrotik/tools/bridge_tools.py ----

get_bridge_tools ==
  <<
    Tool("mikrotik_create_bridge",
         <<Prop("name", "string"), Prop("mtu", "integer"), Prop("arp", "string"),
           Prop("arp_timeout", "string"), Prop("ageing_time", "string"),
           Prop("priority", "integer"), Prop("protocol_mode", "string"),
           Prop("vlan_filtering", "boolean"), Prop("comment", "string"),
           Prop("disabled", "boolean")>>,
         <<"name">>),
    Tool("mikrotik_list_bridges",
         <<Prop("name_filter", "string"), Prop("disabled_only", "boolean")>>,
         <<>>),
    Tool("mikrotik_remove_bridge",
         <<Prop("name", "string")>>,
         <<"name">>),
    Tool("mikrotik_add_bridge_port",
         <<Prop("bridge", "string"), Prop("interface", "string"), Prop("pvid", "integer"),
           Prop("priority", "integer"), Prop("path_cost", "integer"), Prop("edge", "boolean"),
           Prop("point_to_point", "string"), Prop("horizon", "integer"),
           Prop("comment", "string"), Prop("disabled", "boolean")>>,
         <<"bridge", "interface">>),
    Tool("mikrotik_list_bridge_ports",
         <<Prop("bridge_filter", "string"), Prop("interface_filter", "string")>>,
         <<>>),
    Tool("mikrotik_remove_bridge_port",
         <<Prop("interface", "string")>>,
         <<"interface">>),
    Tool("mikrotik_add_bridge_vlan",
         <<Prop("bridge", "string"), Prop("vlan_ids", "string"), Prop("tagged", "string"),
           Prop("untagged", "string"), Prop("comment", "string"), Prop("disabled", "boolean")>>,
         <<"bridge", "vlan_ids">>),
    Tool("mikrotik_list_bridge_vlans",
         <<Prop("bridge_filter", "string")>>,
         <<>>),
    Tool("mikrotik_get_bridge_host",
         <<Prop("bridge_filter", "string")>>,
         <<>>)
  >>

get_bridge_handlers ==
  <<
    Handler("mikrotik_create_bridge", "mikrotik_create_bridge",
         <<Direct("name"), Get("mtu"), Get("arp"), Get("arp_timeout"), Get("ageing_time"),
           Get("priority"), Get("protocol_mode"), Get("vlan_filtering"), Get("comment"),
           Get("disabled")>>),
    Handler("mikrotik_list_bridges", "mikrotik_list_bridges",
         <<Get("name_filter"), Get("disabled_only")>>),
    Handler("mikrotik_remove_bridge", "mikrotik_remove_bridge",
         <<Direct("name")>>),
    Handler("mikrotik_add_bridge_port", "mikrotik_add_bridge_port",
         <<Direct("bridge"), Direct("interface"), Get("pvid"), Get("priority"), Get("path_cost"),
           Get("edge"), Get("point_to_point"), Get("horizon"), Get("comment"), Get("disabled")>>),
    Handler("mikrotik_list_bridge_ports", "mikrotik_list_bridge_ports",
         <<Get("bridge_filter"), Get("interface_filter")>>),
    Handler("mikrotik_remove_bridge_port", "mikrotik_remove_bridge_port",
         <<Direct("interface")>>),
    Handler("mikrotik_add_bridge_vlan", "mikrotik_add_bridge_vlan",
         <<Direct("bridge"), Direct("vlan_ids"), Get("tagged"), Get("untagged"), Get("comment"),
           Get("disabled")>>),
    Handler("mikrotik_list_bridge_vlans", "mikrotik_list_bridge_vlans",
         <<Get("bridge_filter")>>),
    Handler("mikrotik_get_bridge_host", "mikrotik_get_bridge_host",
         <<Get("bridge_filter")>>)
  >>

\* ---- src/mcp_mikrotik/tools/hotspot_tools.py ----

get_hotspot_tools ==
  <<
    Tool("mikrotik_create_hotspot_server",
         <<Prop("name", "string"), Prop("interface", "string"), Prop("address_pool", "string"),
           Prop("profile", "string"), Prop("disabled", "boolean")>>,
         <<"name", "interface", "address_pool">>),
    Tool("mikrotik_list_hotspot_servers",
         <<>>,
         <<>>),
    Tool("mikrotik_list_hotspot_users",
         <<>>,
         <<>>),
    Tool("mikrotik_add_hotspot_user",
         <<Prop("name", "string"), Prop("password", "string"), Prop("profile", "string"),
           Prop("limit_uptime", "string"), Prop("limit_bytes_total", "string"),
           Prop("comment", "string"), Prop("disabled", "boolean")>>,
         <<"name", "password">>),
    Tool("mikrotik_remove_hotspot_user",
         <<Prop("name", "string")>>,
         <<"name">>),
    Tool("mikrotik_list_hotspot_active",
         <<>>,
         <<>>),
    Tool("mikrotik_remove_hotspot_active",
         <<Prop("user", "string")>>,
         <<"user">>)
  >>

\* remove_hotspot_user reading its name with args.get
get_hotspot_handlers_OptionalName ==
  <<
    Handler("mikrotik_create_hotspot_server", "mikrotik_create_hotspot_server",
         <<Direct("name"), Direct("interface"), Direct("address_pool"), Get("profile"),
           Get("disabled")>>),
    Handler("mikrotik_list_hotspot_servers", "mikrotik_list_hotspot_servers",
         <<>>),
    Handler("mikrotik_list_hotspot_users", "mikrotik_list_hotspot_users",
         <<>>),
    Handler("mikrotik_add_hotspot_user", "mikrotik_add_hotspot_user",
         <<Direct("name"), Direct("password"), Get("profile"), Get("limit_uptime"),
           Get("limit_bytes_total"), Get("comment"), Get("disabled")>>),
    Handler("mikrotik_remove_hotspot_user", "mikrotik_remove_hotspot_user",
         <<Get("name")>>),
    Handler("mikrotik_list_hotspot_active", "mikrotik_list_hotspot_active",
         <<>>),
    Handler("mikrotik_remove_hotspot_active", "mikrotik_remove_hotspot_active",
         <<Direct("user")>>)
  >>

\* the key of list_hotspot_users written again for list_hotspot_active
get_hotspot_handlers_RepeatedKey ==
  <<
    Handler("mikrotik_create_hotspot_server", "mikrotik_create_hotspot_server",
         <<Direct("name"), Direct("interface"), Direct("address_pool"), Get("profile"),
           Get("disabled")>>),
    Handler("mikrotik_list_hotspot_servers", "mikrotik_list_hotspot_servers",
         <<>>),
    Handler("mikrotik_list_hotspot_users", "mikrotik_list_hotspot_users",
         <<>>),
    Handler("mikrotik_add_hotspot_user", "mikrotik_add_hotspot_user",
         <<Direct("name"), Direct("password"), Get("profile"), Get("limit_uptime"),
           Get("limit_bytes_total"), Get("comment"), Get("disabled")>>),
    Handler("mikrotik_remove_hotspot_user", "mikrotik_remove_hotspot_user",
         <<Direct("name")>>),
    Handler("mikrotik_list_hotspot_users", "mikrotik_list_hotspot_active",
         <<>>),
    Handler("mikrotik_remove_hotspot_active", "mikrotik_remove_hotspot_active",
         <<Direct("user")>>)
  >>

get_hotspot_handlers ==
  <<
    Handler("mikrotik_create_hotspot_server", "mikrotik_create_hotspot_server",
         <<Direct("name"), Direct("interface"), Direct("address_pool"), Get("profile"),
           Get("disabled")>>),
    Handler("mikrotik_list_hotspot_servers", "mikrotik_list_hotspot_servers",
         <<>>),
    Handler("mikrotik_list_hotspot_users", "mikrotik_list_hotspot_users",
         <<>>),
    Handler("mikrotik_add_hotspot_user", "mikrotik_add_hotspot_user",
         <<Direct("name"), Direct("password"), Get("profile"), Get("limit_uptime"),
           Get("limit_bytes_total"), Get("comment"), Get("disabled")>>),
    Handler("mikrotik_remove_hotspot_user", "mikrotik_remove_hotspot_user",
         <<Direct("name")>>),
    Handler("mikrotik_list_hotspot_active", "mikrotik_list_hotspot_active",
         <<>>),
    Handler("mikrotik_remove_hotspot_active", "mikrotik_remove_hotspot_active",
         <<Direct("user")>>)
  >>

\* ---- src/mcp_mikrotik/tools/pppoe_tools.py ----

get_pppoe_tools ==
  <<
    Tool("mikrotik_create_pppoe_server",
         <<Prop("service_name", "string"), Prop("interface", "string"),
           Prop("default_profile", "string"), Prop("authentication", "string"),
           Prop("keepalive_timeout", "integer"), Prop("max_mtu", "integer"),
           Prop("max_mru", "integer"), Prop("one_session_per_host", "boolean"),
           Prop("disabled", "boolean")>>,
         <<"service_name", "interface">>),
    Tool("mikrotik_list_pppoe_servers",
         <<>>,
         <<>>),
    Tool("mikrotik_remove_pppoe_server",
         <<Prop("service_name", "string")>>,
         <<"service_name">>),
    Tool("mikrotik_add_ppp_secret",
         <<Prop("name", "string"), Prop("password", "string"), Prop("service", "string"),
           Prop("profile", "string"), Prop("local_address", "string"),
           Prop("remote_address", "string"), Prop("routes", "string"),
           Prop("limit_bytes_in", "string"), Prop("limit_bytes_out", "string"),
           Prop("comment", "string"), Prop("disabled", "boolean")>>,
         <<"name", "password">>),
    Tool("mikrotik_list_ppp_secrets",
         <<Prop("service_filter", "string"), Prop("disabled_only", "boolean")>>,
         <<>>),
    Tool("mikrotik_remove_ppp_secret",
         <<Prop("name", "string")>>,
         <<"name">>),
    Tool("mikrotik_list_ppp_active",
         <<>>,
         <<>>),
    Tool("mikrotik_disconnect_ppp_active",
         <<Prop("name", "string")>>,
         <<"name">>),
    Tool("mikrotik_create_ppp_profile",
         <<Prop("name", "string"), Prop("local_address", "string"),
           Prop("remote_address", "string"), Prop("dns_server", "string"),
           Prop("wins_server", "string"), Prop("use_compression", "boolean"),
           Prop("use_encryption", "boolean"), Prop("only_one", "boolean"),
           Prop("rate_limit", "string"), Prop("comment", "string")>>,
         <<"name">>),
    Tool("mikrotik_list_ppp_profiles",
         <<>>,
         <<>>),
    Tool("mikrotik_remove_ppp_profile",
         <<Prop("name", "string")>>,
         <<"name">>),
    Tool("mikrotik_create_pppoe_client",
         <<Prop("name", "string"), Prop("interface", "string"), Prop("user", "string"),
           Prop("password", "string"), Prop("service_name", "string"),
           Prop("add_default_route", "boolean"), Prop("use_peer_dns", "boolean"),
           Prop("profile", "string"), Prop("comment", "string"), Prop("disabled", "boolean")>>,
         <<"name", "interface", "user", "password">>),
    Tool("mikrotik_list_pppoe_clients",
         <<>>,
         <<>>),
    Tool("mikrotik_remove_pppoe_client",
         <<Prop("name", "string")>>,
         <<"name">>)
  >>

\* get_pppoe_handlers with the add_ppp_secret handler reading a key its schema
\* does not declare, "remark", where it reads "comment"
get_pppoe_handlers_UndeclaredKey ==
  <<
    Handler("mikrotik_create_pppoe_server", "mikrotik_create_pppoe_server",
         <<Direct("service_name"), Direct("interface"), Get("default_profile"),
           Get("authentication"), Get("keepalive_timeout"), Get("max_mtu"), Get("max_mru"),
           Get("one_session_per_host"), Get("disabled")>>),
    Handler("mikrotik_list_pppoe_servers", "mikrotik_list_pppoe_servers",
         <<>>),
    Handler("mikrotik_remove_pppoe_server", "mikrotik_remove_pppoe_server",
         <<Direct("service_name")>>),
    Handler("mikrotik_add_ppp_secret", "mikrotik_add_ppp_secret",
         <<Direct("name"), Direct("password"), Get("service"), Get("profile"),
           Get("local_address"), Get("remote_address"), Get("routes"), Get("limit_bytes_in"),
           Get("limit_bytes_out"), Get("remark"), Get("disabled")>>),
    Handler("mikrotik_list_ppp_secrets", "mikrotik_list_ppp_secrets",
         <<Get("service_filter"), Get("disabled_only")>>),
    Handler("mikrotik_remove_ppp_secret", "mikrotik_remove_ppp_secret",
         <<Direct("name")>>),
    Handler("mikrotik_list_ppp_active", "mikrotik_list_ppp_active",
         <<>>),
    Handler("mikrotik_disconnect_ppp_active", "mikrotik_disconnect_ppp_active",
         <<Direct("name")>>),
    Handler("mikrotik_create_ppp_profile", "mikrotik_create_ppp_profile",
         <<Direct("name"), Get("local_address"), Get("remote_address"), Get("dns_server"),
           Get("wins_server"), Get("use_compression"), Get("use_encryption"), Get("only_one"),
           Get("rate_limit"), Get("comment")>>),
    Handler("mikrotik_list_ppp_profiles", "mikrotik_list_ppp_profiles",
         <<>>),
    Handler("mikrotik_remove_ppp_profile", "mikrotik_remove_ppp_profile",
         <<Direct("name")>>),
    Handler("mikrotik_create_pppoe_client", "mikrotik_create_pppoe_client",
         <<Direct("name"), Direct("interface"), Direct("user"), Direct("password"),
           Get("service_name"), Get("add_default_route"), Get("use_peer_dns"), Get("profile"),
           Get("comment"), Get("disabled")>>),
    Handler("mikrotik_list_pppoe_clients", "mikrotik_list_pppoe_clients",
         <<>>),
    Handler("mikrotik_remove_pppoe_client", "mikrotik_remove_pppoe_client",
         <<Direct("name")>>)
  >>

get_pppoe_handlers ==
  <<
    Handler("mikrotik_create_pppoe_server", "mikrotik_create_pppoe_server",
         <<Direct("service_name"), Direct("interface"), Get("default_profile"),
           Get("authentication"), Get("keepalive_timeout"), Get("max_mtu"), Get("max_mru"),
           Get("one_session_per_host"), Get("disabled")>>),
    Handler("mikrotik_list_pppoe_servers", "mikrotik_list_pppoe_servers",
         <<>>),
    Handler("mikrotik_remove_pppoe_server", "mikrotik_remove_pppoe_server",
         <<Direct("service_name")>>),
    Handler("mikrotik_add_ppp_secret", "mikrotik_add_ppp_secret",
         <<Direct("name"), Direct("password"), Get("service"), Get("profile"),
           Get("local_address"), Get("remote_address"), Get("routes"), Get("limit_bytes_in"),
           Get("limit_bytes_out"), Get("comment"), Get("disabled")>>),
    Handler("mikrotik_list_ppp_secrets", "mikrotik_list_ppp_secrets",
         <<Get("service_filter"), Get("disabled_only")>>),
    Handler("mikrotik_remove_ppp_secret", "mikrotik_remove_ppp_secret",
         <<Direct("name")>>),
    Handler("mikrotik_list_ppp_active", "mikrotik_list_ppp_active",
         <<>>),
    Handler("mikrotik_disconnect_ppp_active", "mikrotik_disconnect_ppp_active",
         <<Direct("name")>>),
    Handler("mikrotik_create_ppp_profile", "mikrotik_create_ppp_profile",
         <<Direct("name"), Get("local_address"), Get("remote_address"), Get("dns_server"),
           Get("wins_server"), Get("use_compression"), Get("use_encryption"), Get("only_one"),
           Get("rate_limit"), Get("comment")>>),
    Handler("mikrotik_list_ppp_profiles", "mikrotik_list_ppp_profiles",
         <<>>),
    Handler("mikrotik_remove_ppp_profile", "mikrotik_remove_ppp_profile",
         <<Direct("name")>>),
    Handler("mikrotik_create_pppoe_client", "mikrotik_create_pppoe_client",
         <<Direct("name"), Direct("interface"), Direct("user"), Direct("password"),
           Get("service_name"), Get("add_default_route"), Get("use_peer_dns"), Get("profile"),
           Get("comment"), Get("disabled")>>),
    Handler("mikrotik_list_pppoe_clients", "mikrotik_list_pppoe_clients",
         <<>>),
    Handler("mikrotik_remove_pppoe_client", "mikrotik_remove_pppoe_client",
         <<Direct("name")>>)
  >>

\* ---- src/mcp_mikrotik/tools/queue_tools.py ----

get_queue_tools ==
  <<
    Tool("mikrotik_create_simple_queue",
         <<Prop("name", "string"), Prop("target", "string"), Prop("max_limit", "string"),
           Prop("burst_limit", "string"), Prop("burst_threshold", "string"),
           Prop("burst_time", "string"), Prop("limit_at", "string"),
           Prop("priority", "integer"), Prop("queue_type", "string"), Prop("parent", "string"),
           Prop("comment", "string"), Prop("disabled", "boolean")>>,
         <<"name", "target", "max_limit">>),
    Tool("mikrotik_list_simple_queues",
         <<Prop("name_filter", "string"), Prop("target_filter", "string"),
           Prop("disabled_only", "boolean")>>,
         <<>>),
    Tool("mikrotik_remove_simple_queue",
         <<Prop("name", "string")>>,
         <<"name">>),
    Tool("mikrotik_enable_simple_queue",
         <<Prop("name", "string")>>,
         <<"name">>),
    Tool("mikrotik_disable_simple_queue",
         <<Prop("name", "string")>>,
         <<"name">>),
    Tool("mikrotik_create_queue_tree",
         <<Prop("name", "string"), Prop("parent", "string"), Prop("max_limit", "string"),
           Prop("burst_limit", "string"), Prop("burst_threshold", "string"),
           Prop("burst_time", "string"), Prop("limit_at", "string"),
           Prop("priority", "integer"), Prop("queue_type", "string"),
           Prop("packet_mark", "string"), Prop("comment", "string"),
           Prop("disabled", "boolean")>>,
         <<"name", "parent", "max_limit">>),
    Tool("mikrotik_list_queue_tree",
         <<Prop("name_filter", "string"), Prop("parent_filter", "string"),
           Prop("disabled_only", "boolean")>>,
         <<>>),
    Tool("mikrotik_remove_queue_tree",
         <<Prop("name", "string")>>,
         <<"name">>),
    Tool("mikrotik_list_queue_types",
         <<>>,
         <<>>),
    Tool("mikrotik_create_queue_type",
         <<Prop("name", "string"), Prop("kind", "string"), Prop("pcq_rate", "string"),
           Prop("pcq_limit", "string"), Prop("pcq_classifier", "string"),
           Prop("pcq_total_limit", "string")>>,
         <<"name", "kind">>),
    Tool("mikrotik_remove_queue_type",
         <<Prop("name", "string")>>,
         <<"name">>),
    Tool("mikrotik_reset_queue_counters",
         <<>>,
         <<>>)
  >>

\* get_queue_handlers with two reads of the queue tree handler exchanged:
\* limit_at is passed in the place of burst_limit and burst_limit in its place
get_queue_handlers_Swapped ==
  <<
    Handler("mikrotik_create_simple_queue", "mikrotik_create_simple_queue",
         <<Direct("name"), Direct("target"), Direct("max_limit"), Get("burst_limit"),
           Get("burst_threshold"), Get("burst_time"), Get("limit_at"), Get("priority"),
           Get("queue_type"), Get("parent"), Get("comment"), Get("disabled")>>),
    Handler("mikrotik_list_simple_queues", "mikrotik_list_simple_queues",
         <<Get("name_filter"), Get("target_filter"), Get("disabled_only")>>),
    Handler("mikrotik_remove_simple_queue", "mikrotik_remove_simple_queue",
         <<Direct("name")>>),
    Handler("mikrotik_enable_simple_queue", "mikrotik_enable_simple_queue",
         <<Direct("name")>>),
    Handler("mikrotik_disable_simple_queue", "mikrotik_disable_simple_queue",
         <<Direct("name")>>),
    Handler("mikrotik_create_queue_tree", "mikrotik_create_queue_tree",
         <<Direct("name"), Direct("parent"), Direct("max_limit"), Get("limit_at"),
           Get("burst_threshold"), Get("burst_time"), Get("burst_limit"), Get("priority"),
           Get("queue_type"), Get("packet_mark"), Get("comment"), Get("disabled")>>),
    Handler("mikrotik_list_queue_tree", "mikrotik_list_queue_tree",
         <<Get("name_filter"), Get("parent_filter"), Get("disabled_only")>>),
    Handler("mikrotik_remove_queue_tree", "mikrotik_remove_queue_tree",
         <<Direct("name")>>),
    Handler("mikrotik_list_queue_types", "mikrotik_list_queue_types",
         <<>>),
    Handler("mikrotik_create_queue_type", "mikrotik_create_queue_type",
         <<Direct("name"), Direct("kind"), Get("pcq_rate"), Get("pcq_limit"),
           Get("pcq_classifier"), Get("pcq_total_limit")>>),
    Handler("mikrotik_remove_queue_type", "mikrotik_remove_queue_type",
         <<Direct("name")>>),
    Handler("mikrotik_reset_queue_counters", "mikrotik_reset_queue_counters",
         <<>>)
  >>

get_queue_handlers ==
  <<
    Handler("mikrotik_create_simple_queue", "mikrotik_create_simple_queue",
         <<Direct("name"), Direct("target"), Direct("max_limit"), Get("burst_limit"),
           Get("burst_threshold"), Get("burst_time"), Get("limit_at"), Get("priority"),
           Get("queue_type"), Get("parent"), Get("comment"), Get("disabled")>>),
    Handler("mikrotik_list_simple_queues", "mikrotik_list_simple_queues",
         <<Get("name_filter"), Get("target_filter"), Get("disabled_only")>>),
    Handler("mikrotik_remove_simple_queue", "mikrotik_remove_simple_queue",
         <<Direct("name")>>),
    Handler("mikrotik_enable_simple_queue", "mikrotik_enable_simple_queue",
         <<Direct("name")>>),
    Handler("mikrotik_disable_simple_queue", "mikrotik_disable_simple_queue",
         <<Direct("name")>>),
    Handler("mikrotik_create_queue_tree", "mikrotik_create_queue_tree",
         <<Direct("name"), Direct("parent"), Direct("max_limit"), Get("burst_limit"),
           Get("burst_threshold"), Get("burst_time"), Get("limit_at"), Get("priority"),
           Get("queue_type"), Get("packet_mark"), Get("comment"), Get("disabled")>>),
    Handler("mikrotik_list_queue_tree", "mikrotik_list_queue_tree",
         <<Get("name_filter"), Get("parent_filter"), Get("disabled_only")>>),
    Handler("mikrotik_remove_queue_tree", "mikrotik_remove_queue_tree",
         <<Direct("name")>>),
    Handler("mikrotik_list_queue_types", "mikrotik_list_queue_types",
         <<>>),
    Handler("mikrotik_create_queue_type", "mikrotik_create_queue_type",
         <<Direct("name"), Direct("kind"), Get("pcq_rate"), Get("pcq_limit"),
           Get("pcq_classifier"), Get("pcq_total_limit")>>),
    Handler("mikrotik_remove_queue_type", "mikrotik_remove_queue_type",
         <<Direct("name")>>),
    Handler("mikrotik_reset_queue_counters", "mikrotik_reset_queue_counters",
         <<>>)
  >>

\* ---- src/mcp_mikrotik/tools/routing_advanced_tools.py ----

get_routing_advanced_tools ==
  <<
    Tool("mikrotik_create_bgp_instance",
         <<Prop("name", "string"), Prop("as_number", "integer"), Prop("router_id", "string"),
           Prop("redistribute_connected", "boolean"), Prop("redistribute_static", "boolean"),
           Prop("redistribute_ospf", "boolean"),
           Prop("client_to_client_reflection", "boolean"), Prop("comment", "string"),
           Prop("disabled", "boolean")>>,
         <<"name", "as_number">>),
    Tool("mikrotik_list_bgp_instances",
         <<>>,
         <<>>),
    Tool("mikrotik_remove_bgp_instance",
         <<Prop("name", "string")>>,
         <<"name">>),
    Tool("mikrotik_add_bgp_peer",
         <<Prop("name", "string"), Prop("instance", "string"),
           Prop("remote_address", "string"), Prop("remote_as", "integer"),
           Prop("ttl", "integer"), Prop("multihop", "boolean"),
           Prop("route_reflect", "boolean"), Prop("hold_time", "string"),
           Prop("tcp_md5_key", "string"), Prop("update_source", "string"),
           Prop("comment", "string"), Prop("disabled", "boolean")>>,
         <<"name", "instance", "remote_address", "remote_as">>),
    Tool("mikrotik_list_bgp_peers",
         <<>>,
         <<>>),
    Tool("mikrotik_remove_bgp_peer",
         <<Prop("name", "string")>>,
         <<"name">>),
    Tool("mikrotik_list_bgp_advertisements",
         <<>>,
         <<>>),
    Tool("mikrotik_create_ospf_instance",
         <<Prop("name", "string"), Prop("router_id", "string"),
           Prop("redistribute_connected", "boolean"), Prop("redistribute_static", "boolean"),
           Prop("redistribute_bgp", "boolean"), Prop("comment", "string"),
           Prop("disabled", "boolean")>>,
         <<"name">>),
    Tool("mikrotik_list_ospf_instances",
         <<>>,
         <<>>),
    Tool("mikrotik_remove_ospf_instance",
         <<Prop("name", "string")>>,
         <<"name">>),
    Tool("mikrotik_add_ospf_area",
         <<Prop("name", "string"), Prop("area_id", "string"), Prop("instance", "string"),
           Prop("type", "string"), Prop("comment", "string"), Prop("disabled", "boolean")>>,
         <<"name", "area_id">>),
    Tool("mikrotik_list_ospf_areas",
         <<>>,
         <<>>),
    Tool("mikrotik_add_ospf_network",
         <<Prop("network", "string"), Prop("area", "string"), Prop("comment", "string"),
           Prop("disabled", "boolean")>>,
         <<"network", "area">>),
    Tool("mikrotik_list_ospf_networks",
         <<>>,
         <<>>),
    Tool("mikrotik_list_ospf_neighbors",
         <<>>,
         <<>>),
    Tool("mikrotik_add_ospf_interface",
         <<Prop("interface", "string"), Prop("network_type", "string"),
           Prop("priority", "integer"), Prop("cost", "integer"),
           Prop("authentication", "string"), Prop("authentication_key", "string"),
           Prop("comment", "string"), Prop("disabled", "boolean")>>,
         <<"interface">>),
    Tool("mikrotik_list_ospf_interfaces",
         <<>>,
         <<>>),
    Tool("mikrotik_create_rip_instance",
         <<Prop("name", "string"), Prop("redistribute_connected", "boolean"),
           Prop("redistribute_static", "boolean"), Prop("redistribute_ospf", "boolean"),
           Prop("redistribute_bgp", "boolean"), Prop("comment", "string"),
           Prop("disabled", "boolean")>>,
         <<"name">>),
    Tool("mikrotik_list_rip_instances",
         <<>>,
         <<>>),
    Tool("mikrotik_remove_rip_instance",
         <<Prop("name", "string")>>,
         <<"name">>),
    Tool("mikrotik_add_rip_network",
         <<Prop("network", "string"), Prop("instance", "string"), Prop("comment", "string"),
           Prop("disabled", "boolean")>>,
         <<"network">>),
    Tool("mikrotik_list_rip_networks",
         <<>>,
         <<>>),
    Tool("mikrotik_add_rip_interface",
         <<Prop("interface", "string"), Prop("receive", "string"), Prop("send", "string"),
           Prop("authentication", "string"), Prop("authentication_key", "string"),
           Prop("comment", "string"), Prop("disabled", "boolean")>>,
         <<"interface">>),
    Tool("mikrotik_list_rip_interfaces",
         <<>>,
         <<>>),
    Tool("mikrotik_list_rip_neighbors",
         <<>>,
         <<>>)
  >>

get_routing_advanced_handlers ==
  <<
    Handler("mikrotik_create_bgp_instance", "mikrotik_create_bgp_instance",
         <<Direct("name"), Direct("as_number"), Get("router_id"), Get("redistribute_connected"),
           Get("redistribute_static"), Get("redistribute_ospf"),
           Get("client_to_client_reflection"), Get("comment"), Get("disabled")>>),
    Handler("mikrotik_list_bgp_instances", "mikrotik_list_bgp_instances",
         <<>>),
    Handler("mikrotik_remove_bgp_instance", "mikrotik_remove_bgp_instance",
         <<Direct("name")>>),
    Handler("mikrotik_add_bgp_peer", "mikrotik_add_bgp_peer",
         <<Direct("name"), Direct("instance"), Direct("remote_address"), Direct("remote_as"),
           Get("ttl"), Get("multihop"), Get("route_reflect"), Get("hold_time"), Get("tcp_md5_key"),
           Get("update_source"), Get("comment"), Get("disabled")>>),
    Handler("mikrotik_list_bgp_peers", "mikrotik_list_bgp_peers",
         <<>>),
    Handler("mikrotik_remove_bgp_peer", "mikrotik_remove_bgp_peer",
         <<Direct("name")>>),
    Handler("mikrotik_list_bgp_advertisements", "mikrotik_list_bgp_advertisements",
         <<>>),
    Handler("mikrotik_create_ospf_instance", "mikrotik_create_ospf_instance",
         <<Direct("name"), Get("router_id"), Get("redistribute_connected"),
           Get("redistribute_static"), Get("redistribute_bgp"), Get("comment"), Get("disabled")>>),
    Handler("mikrotik_list_ospf_instances", "mikrotik_list_ospf_instances",
         <<>>),
    Handler("mikrotik_remove_ospf_instance", "mikrotik_remove_ospf_instance",
         <<Direct("name")>>),
    Handler("mikrotik_add_ospf_area", "mikrotik_add_ospf_area",
         <<Direct("name"), Direct("area_id"), Get("instance"), Get("type"), Get("comment"),
           Get("disabled")>>),
    Handler("mikrotik_list_ospf_areas", "mikrotik_list_ospf_areas",
         <<>>),
    Handler("mikrotik_add_ospf_network", "mikrotik_add_ospf_network",
         <<Direct("network"), Direct("area"), Get("comment"), Get("disabled")>>),
    Handler("mikrotik_list_ospf_networks", "mikrotik_list_ospf_networks",
         <<>>),
    Handler("mikrotik_list_ospf_neighbors", "mikrotik_list_ospf_neighbors",
         <<>>),
    Handler("mikrotik_add_ospf_interface", "mikrotik_add_ospf_interface",
         <<Direct("interface"), Get("network_type"), Get("priority"), Get("cost"),
           Get("authentication"), Get("authentication_key"), Get("comment"), Get("disabled")>>),
    Handler("mikrotik_list_ospf_interfaces", "mikrotik_list_ospf_interfaces",
         <<>>),
    Handler("mikrotik_create_rip_instance", "mikrotik_create_rip_instance",
         <<Direct("name"), Get("redistribute_connected"), Get("redistribute_static"),
           Get("redistribute_ospf"), Get("redistribute_bgp"), Get("comment"), Get("disabled")>>),
    Handler("mikrotik_list_rip_instances", "mikrotik_list_rip_instances",
         <<>>),
    Handler("mikrotik_remove_rip_instance", "mikrotik_remove_rip_instance",
         <<Direct("name")>>),
    Handler("mikrotik_add_rip_network", "mikrotik_add_rip_network",
         <<Direct("network"), Get("instance"), Get("comment"), Get("disabled")>>),
    Handler("mikrotik_list_rip_networks", "mikrotik_list_rip_networks",
         <<>>),
    Handler("mikrotik_add_rip_interface", "mikrotik_add_rip_interface",
         <<Direct("interface"), Get("receive"), Get("send"), Get("authentication"),
           Get("authentication_key"), Get("comment"), Get("disabled")>>),
    Handler("mikrotik_list_rip_interfaces", "mikrotik_list_rip_interfaces",
         <<>>),
    Handler("mikrotik_list_rip_neighbors", "mikrotik_list_rip_neighbors",
         <<>>)
  >>

\* ---- src/mcp_mikrotik/tools/system_tools.py ----

get_system_tools ==
  <<
    Tool("mikrotik_get_system_resource",
         <<>>,
         <<>>),
    Tool("mikrotik_get_system_health",
         <<>>,
         <<>>),
    Tool("mikrotik_get_system_identity",
         <<>>,
         <<>>),
    Tool("mikrotik_set_system_identity",
         <<Prop("name", "string")>>,
         <<"name">>),
    Tool("mikrotik_get_system_clock",
         <<>>,
         <<>>),
    Tool("mikrotik_set_system_clock",
         <<Prop("time_zone_name", "string"), Prop("time_zone_autodetect", "boolean")>>,
         <<>>),
    Tool("mikrotik_get_ntp_client",
         <<>>,
         <<>>),
    Tool("mikrotik_set_ntp_client",
         <<Prop("enabled", "boolean"), Prop("servers", "array"), Prop("mode", "string")>>,
         <<>>),
    Tool("mikrotik_system_reboot",
         <<>>,
         <<>>),
    Tool("mikrotik_system_shutdown",
         <<>>,
         <<>>),
    Tool("mikrotik_list_packages",
         <<>>,
         <<>>),
    Tool("mikrotik_enable_package",
         <<Prop("package_name", "string")>>,
         <<"package_name">>),
    Tool("mikrotik_disable_package",
         <<Prop("package_name", "string")>>,
         <<"package_name">>),
    Tool("mikrotik_list_scheduler",
         <<>>,
         <<>>),
    Tool("mikrotik_add_scheduler",
         <<Prop("name", "string"), Prop("on_event", "string"), Prop("start_date", "string"),
           Prop("start_time", "string"), Prop("interval", "string"), Prop("policy", "string"),
           Prop("comment", "string"), Prop("disabled", "boolean")>>,
         <<"name", "on_event">>),
    Tool("mikrotik_remove_scheduler",
         <<Prop("name", "string")>>,
         <<"name">>),
    Tool("mikrotik_list_scripts",
         <<>>,
         <<>>),
    Tool("mikrotik_add_script",
         <<Prop("name", "string"), Prop("source", "string"), Prop("policy", "string"),
           Prop("comment", "string"), Prop("dont_require_permissions", "boolean")>>,
         <<"name", "source">>),
    Tool("mikrotik_run_script",
         <<Prop("name", "string")>>,
         <<"name">>),
    Tool("mikrotik_remove_script",
         <<Prop("name", "string")>>,
         <<"name">>),
    Tool("mikrotik_get_system_routerboard",
         <<>>,
         <<>>),
    Tool("mikrotik_get_system_license",
         <<>>,
         <<>>),
    Tool("mikrotik_get_system_history",
         <<>>,
         <<>>)
  >>

get_system_handlers ==
  <<
    Handler("mikrotik_get_system_resource", "mikrotik_get_system_resource",
         <<>>),
    Handler("mikrotik_get_system_health", "mikrotik_get_system_health",
         <<>>),
    Handler("mikrotik_get_system_identity", "mikrotik_get_system_identity",
         <<>>),
    Handler("mikrotik_set_system_identity", "mikrotik_set_system_identity",
         <<Direct("name")>>),
    Handler("mikrotik_get_system_clock", "mikrotik_get_system_clock",
         <<>>),
    Handler("mikrotik_set_system_clock", "mikrotik_set_system_clock",
         <<Get("time_zone_name"), Get("time_zone_autodetect")>>),
    Handler("mikrotik_get_ntp_client", "mikrotik_get_ntp_client",
         <<>>),
    Handler("mikrotik_set_ntp_client", "mikrotik_set_ntp_client",
         <<Get("enabled"), Get("servers"), Get("mode")>>),
    Handler("mikrotik_system_reboot", "mikrotik_system_reboot",
         <<>>),
    Handler("mikrotik_system_shutdown", "mikrotik_system_shutdown",
         <<>>),
    Handler("mikrotik_list_packages", "mikrotik_list_packages",
         <<>>),
    Handler("mikrotik_enable_package", "mikrotik_enable_package",
         <<Direct("package_name")>>),
    Handler("mikrotik_disable_package", "mikrotik_disable_package",
         <<Direct("package_name")>>),
    Handler("mikrotik_list_scheduler", "mikrotik_list_scheduler",
         <<>>),
    Handler("mikrotik_add_scheduler", "mikrotik_add_scheduler",
         <<Direct("name"), Direct("on_event"), Get("start_date"), Get("start_time"),
           Get("interval"), Get("policy"), Get("comment"), Get("disabled")>>),
    Handler("mikrotik_remove_scheduler", "mikrotik_remove_scheduler",
         <<Direct("name")>>),
    Handler("mikrotik_list_scripts", "mikrotik_list_scripts",
         <<>>),
    Handler("mikrotik_add_script", "mikrotik_add_script",
         <<Direct("name"), Direct("source"), Get("policy"), Get("comment"),
           Get("dont_require_permissions")>>),
    Handler("mikrotik_run_script", "mikrotik_run_script",
         <<Direct("name")>>),
    Handler("mikrotik_remove_script", "mikrotik_remove_script",
         <<Direct("name")>>),
    Handler("mikrotik_get_system_routerboard", "mikrotik_get_system_routerboard",
         <<>>),
    Handler("mikrotik_get_system_license", "mikrotik_get_system_license",
         <<>>),
    Handler("mikrotik_get_system_history", "mikrotik_get_system_history",
         <<>>)
  >>
\* ---- running a domain function ----

Required(o) == {o.params[i].n : i \in {j \in 1..Len(o.params) : o.params[j].req}}
Optional(o) == {o.params[i].n : i \in {j \in 1..Len(o.params) : ~o.params[j].req}}

\* every test is `if p:`
Test_Truthiness(x, a) == x.p \in DOMAIN a /\ Truthy(a[x.p])

\* every test is `if p is not None:`
Test_NotNone(x, a) == x.p \in DOMAIN a

\* `if p:` and `if p is not None:`
Test(x, a) ==
  /\ x.p \in DOMAIN a
  /\ (x.test = "truthy" => Truthy(a[x.p]))

RECURSIVE Appended_Reversed(_, _)
\* the `if` statements written in the opposite order
Appended_Reversed(xs, a) ==
  IF xs = <<>> THEN ""
  ELSE Appended_Reversed(Tail(xs), a)
       \o (IF Test(Head(xs), a) THEN Render(Head(xs).add, a, "") ELSE "")

RECURSIVE Appended(_, _)
\* a run of independent `if` statements, each doing cmd += ...
Appended(xs, a) ==
  IF xs = <<>> THEN ""
  ELSE (IF Test(Head(xs), a) THEN Render(Head(xs).add, a, "") ELSE "")
       \o Appended(Tail(xs), a)

\* the branches as independent `if` statements
Chained_Independent(xs, a) == Appended(xs, a)

RECURSIVE Chained_LastWins(_, _)
\* the chain tested from the last parameter to the first
Chained_LastWins(xs, a) ==
  IF xs = <<>> THEN ""
  ELSE IF Test(xs[Len(xs)], a) THEN Render(xs[Len(xs)].add, a, "")
  ELSE Chained_LastWins(SubSeq(xs, 1, Len(xs) - 1), a)

RECURSIVE Chained(_, _)
\* an if / elif chain: the first branch whose test holds
Chained(xs, a) ==
  IF xs = <<>> THEN ""
  ELSE IF Test(Head(xs), a) THEN Render(Head(xs).add, a, "")
  ELSE Chained(Tail(xs), a)

\* cmd kept at module level: each call extends what the first one left
BuildCmd_Accumulating(o, a) ==
  (IF calls > 0 THEN first.cmd[1] ELSE "")
    \o Render(o.cmd, a, "")
    \o (IF o.chain = "elif" THEN Chained(o.opts, a) ELSE Appended(o.opts, a))

\* the value of cmd when execute_mikrotik_command(cmd) is called
BuildCmd(o, a) ==
  Render(o.cmd, a, "")
    \o (IF o.chain = "elif" THEN Chained(o.opts, a) ELSE Appended(o.opts, a))

\* the message given to app_logger.info
LogLine(o, a) == Render(o.log, a, "")

\* evaluating piece x raises: ",".join(v) wants an iterable of str
\* (TypeError), v.replace wants a str (AttributeError)
Raising(x, a) ==
  CASE x.k = "join" -> a[x.v].t \notin {"list", "str"}
    [] x.k = "esc"  -> a[x.v].t # "str"
    [] OTHER        -> FALSE

\* building the command of o from a raises: a piece of cmd does, or a piece
\* of an optional part whose test passes
Raises(o, a) ==
  \/ \E i \in 1..Len(o.cmd) : Raising(o.cmd[i], a)
  \/ \E j \in 1..Len(o.opts) :
       /\ Test(o.opts[j], a)
       /\ o.chain = "elif" => \A k \in 1..(j - 1) : ~Test(o.opts[k], a)
       /\ \E i \in 1..Len(o.opts[j].add) : Raising(o.opts[j].add[i], a)

\* the test without .lower()
IsFailure_CaseSensitive(r) == PyIn("failure:", r) \/ PyIn("error", r)

\* "failure:" in result.lower() or "error" in result.lower()
IsFailure(r) == PyIn("failure:", Lower(r)) \/ PyIn("error", Lower(r))

\* the failure text built from the lower-cased copy of the response
Finish_Lowered(o, a, r) ==
  IF o.inspects /\ IsFailure(r) THEN Render(o.fail, a, Lower(r)) ELSE Render(o.ok, a, r)

RECURSIVE RStrip(_)
\* s.rstrip()
RStrip(s) ==
  IF s # "" /\ SubSeq(s, Len(s), Len(s)) \in {" ", "\n"}
  THEN RStrip(SubSeq(s, 1, Len(s) - 1))
  ELSE s

\* the response stripped of trailing white space before it is returned
Finish_Stripped(o, a, r) ==
  IF o.inspects /\ IsFailure(r) THEN Render(o.fail, a, r) ELSE Render(o.ok, a, RStrip(r))

\* Finish with every success result carrying the response at its end
Finish_Carrying(o, a, r) ==
  IF o.inspects /\ IsFailure(r) THEN Render(o.fail, a, r) ELSE Render(o.ok, a, r) \o r

\* Finish with the failure test applied to the command as well as to the
\* response
Finish_InspectsCommand(o, a, r) ==
  IF o.inspects /\ (IsFailure(r) \/ IsFailure(BuildCmd(o, a))) THEN Render(o.fail, a, r) ELSE Render(o.ok, a, r)

\* the return value, given the connector's response r
Finish(o, a, r) ==
  IF o.inspects /\ IsFailure(r) THEN Render(o.fail, a, r) ELSE Render(o.ok, a, r)

\* ---- the inputs ----

RECURSIVE Bindings(_, _)
\* every binding of the parameters named in D to values of their types
Bindings(ps, D) ==
  IF ps = <<>> THEN {EmptyBag}
  ELSE LET p == Head(ps)
           rest == Bindings(Tail(ps), D)
       IN  IF p.n \in D
           THEN {(p.n :> v) @@ f : f \in rest, v \in Vals(p)}
           ELSE rest

OptionalChoices(S) == {T \in SUBSET S : Cardinality(T) <= MaxOptional}

\* the calls of o: all required parameters, at most MaxOptional optional ones
ArgSets(o) ==
  UNION {Bindings(o.params, Required(o) \cup T) : T \in OptionalChoices(Optional(o))}

\* ---- running a tool handler ----

\* the <<tool, property>> pairs whose schema gives an "enum" list
EnumProps ==
  {<<"mikrotik_create_bridge", "protocol_mode">>,
   <<"mikrotik_add_bridge_port", "point_to_point">>,
   <<"mikrotik_add_ospf_area", "type">>,
   <<"mikrotik_add_ospf_interface", "authentication">>,
   <<"mikrotik_add_rip_interface", "receive">>,
   <<"mikrotik_add_rip_interface", "send">>,
   <<"mikrotik_add_rip_interface", "authentication">>,
   <<"mikrotik_set_ntp_client", "mode">>}

AdapterModules ==
  <<[tools |-> get_bridge_tools,           handlers |-> get_bridge_handlers],
    [tools |-> get_hotspot_tools,          handlers |-> get_hotspot_handlers],
    [tools |-> get_pppoe_tools,            handlers |-> get_pppoe_handlers],
    [tools |-> get_queue_tools,            handlers |-> get_queue_handlers],
    [tools |-> get_routing_advanced_tools, handlers |-> get_routing_advanced_handlers],
    [tools |-> get_system_tools,           handlers |-> get_system_handlers]>>

\* the declaration of tool n in a module's list
Decl(tools, n) == tools[CHOOSE j \in 1..Len(tools) : tools[j].name = n]

Range(s) == {s[i] : i \in 1..Len(s)}

\* the argument bags for a declared tool: any of its required keys, at most
\* MaxOptional of the others, each with a value of its schema type
BagSets(d) ==
  LET req == Range(d.required)
      opt == {d.props[i].n : i \in 1..Len(d.props)} \ req
  IN  UNION {Bindings(d.props, R \cup T) : R \in SUBSET req, T \in OptionalChoices(opt)}

\* args["key"] raises KeyError when the key is not in the bag
KeyError(h, b) ==
  \E i \in 1..Len(h.reads) : h.reads[i].m = "direct" /\ h.reads[i].key \notin DOMAIN b

\* the i-th value read from the bag is bound to the i-th declared parameter of
\* the domain function; args.get of a missing key gives None
Positional(h, b) ==
  LET ps == Op(h.func).params
      bound == {i \in 1..Len(h.reads) : h.reads[i].key \in DOMAIN b}
  IN  [n \in {ps[i].n : i \in bound} |->
         b[h.reads[CHOOSE i \in bound : ps[i].n = n].key]]

\* ---- the state machine ----

\* the record of an invocation: what was called, what was submitted, what
\* the connector answered and what was returned
Invocation(n, a, c, r, res) ==
  [op |-> n, args |-> a, cmd |-> c, response |-> r, result |-> res]

NoCall == Invocation("", EmptyBag, <<>>, "", "")

\* the two invocations that may be in progress at the same time
Invocations == {1, 2}

\* the local variables of one invocation: where it is, the handler's tool and
\* bag, the function entered and its parameters, its cmd, its result
\* (the connector's answer) and what it returns
Local(p, t, b, n, a, c, r, res) ==
  [pc |-> p, tool |-> t, bag |-> b, op |-> n, args |-> a,
   cmd |-> c, response |-> r, result |-> res]

Idle == Local("idle", "", EmptyBag, "", EmptyBag, "", "", "")

Init ==
  /\ pc = "idle"
  /\ tool = ""
  /\ bag = EmptyBag
  /\ op = ""
  /\ args = EmptyBag
  /\ log = <<>>
  /\ sent = <<>>
  /\ response = ""
  /\ result = ""
  /\ catalogue = <<>>
  /\ dispatch = EmptyBag
  /\ loaded = 0
  /\ overwritten = {}
  /\ calls = 0
  /\ first = NoCall
  /\ inflight = [i \in Invocations |-> Idle]

\* Enter with a short cut for an empty change: an operation whose parameters
\* are all absent returns without submitting anything
Enter_SkipsEmptyChange(n, a) ==
  /\ op' = n
  /\ args' = a
  /\ log' = Append(log, LogLine(Op(n), a))
  /\ IF Op(n).opts # <<>> /\ Op(n).chain = "if" /\ DOMAIN a = {}
     THEN /\ pc' = "done"
          /\ sent' = sent
          /\ result' = "No changes specified"
          /\ response' = response
     ELSE /\ IF Raises(Op(n), a)
             THEN /\ pc' = "raised"
                  /\ sent' = sent
             ELSE /\ pc' = "waiting"
                  /\ sent' = Append(sent, BuildCmd(Op(n), a))
          /\ UNCHANGED <<response, result>>

\* The body of domain function n up to and including the call of
\* execute_mikrotik_command: log, build the command, submit it.  When
\* building the command raises, the entry is logged and nothing is submitted.
Enter(n, a) ==
  /\ op' = n
  /\ args' = a
  /\ log' = Append(log, LogLine(Op(n), a))
  /\ IF Raises(Op(n), a)
     THEN /\ pc' = "raised"
          /\ sent' = sent
     ELSE /\ pc' = "waiting"
          /\ sent' = Append(sent, BuildCmd(Op(n), a))
  /\ UNCHANGED <<response, result>>

\* A caller invokes a domain function directly.
Call ==
  /\ pc = "idle"
  /\ \E n \in OpNames : \E a \in ArgSets(Op(n)) :
       /\ Enter(n, a)
       /\ UNCHANGED <<tool, bag>>
  /\ UNCHANGED <<regVars, histVars, inflight>>

\* Return with a retry: after a failure-classified response the command is
\* submitted a second time
Return_Retrying ==
  /\ pc = "waiting"
  /\ \E r \in Responses :
       /\ response' = r
       /\ result' = Finish(Op(op), args, r)
       /\ sent' = IF IsFailure(r) THEN Append(sent, sent[Len(sent)]) ELSE sent
       /\ pc' = "done"
  /\ UNCHANGED <<tool, bag, op, args, log>>
  /\ UNCHANGED <<regVars, histVars, inflight>>

\* execute_mikrotik_command returns r; the function classifies it and returns.
Return ==
  /\ pc = "waiting"
  /\ \E r \in Responses :
       /\ response' = r
       /\ result' = Finish(Op(op), args, r)
       /\ pc' = "done"
  /\ UNCHANGED <<tool, bag, op, args, log, sent>>
  /\ UNCHANGED <<regVars, histVars, inflight>>

\* The caller has its answer; the next invocation is observed afresh.
Complete ==
  /\ pc \in {"done", "raised"}
  /\ pc' = "idle"
  /\ tool' = ""
  /\ bag' = EmptyBag
  /\ op' = ""
  /\ args' = EmptyBag
  /\ log' = <<>>
  /\ sent' = <<>>
  /\ response' = ""
  /\ result' = ""
  /\ UNCHANGED <<regVars, histVars, inflight>>

Next == Call \/ Return \/ Complete

Spec == Init /\ [][Next]_vars

\* The lambda of handler h runs on bag b: it reads the bag, key by key, and
\* calls the domain function positionally.
Handle(h, b) ==
  /\ tool' = h.name
  /\ bag' = b
  /\ IF KeyError(h, b)
     THEN /\ pc' = "raised"
          /\ UNCHANGED <<op, args, log, sent, response, result>>
     ELSE Enter(h.func, Positional(h, b))

\* A caller invokes the handler of a tool with an argument bag.
Invoke ==
  /\ pc = "idle"
  /\ \E m \in 1..Len(AdapterModules) : \E i \in 1..Len(AdapterModules[m].handlers) :
       LET h == AdapterModules[m].handlers[i]
           d == Decl(AdapterModules[m].tools, h.name)
       IN  \E b \in BagSets(d) : Handle(h, b)
  /\ UNCHANGED <<regVars, histVars, inflight>>

NextTool == Invoke \/ Return \/ Complete

SpecTool == Init /\ [][NextTool]_vars

\* ---- a session of several invocations ----

\* the operations called in a session: reads and writes of the IPv6 and
\* SNMP menus
SessionOps ==
  {"mikrotik_get_ipv6_settings", "mikrotik_set_ipv6_settings",
   "mikrotik_get_snmp_settings", "mikrotik_remove_snmp_community"}

\* what the connector answers in a session: a success, a failure, a table
SessionResponses ==
  {"done", "Failure: x", " 0 R  name=\"br0\" mtu=1500\n 1 X  name=\"br1\"\n"}

\* A caller invokes a domain function, the first or a later one of the session.
CallNext ==
  /\ pc = "idle"
  /\ calls < MaxCalls
  /\ \E n \in SessionOps : \E a \in ArgSets(Op(n)) :
       /\ Enter(n, a)
       /\ UNCHANGED <<tool, bag>>
  /\ UNCHANGED <<regVars, histVars, inflight>>

\* execute_mikrotik_command returns; the function classifies and returns.
Answer ==
  /\ pc = "waiting"
  /\ \E r \in SessionResponses :
       /\ response' = r
       /\ result' = Finish(Op(op), args, r)
       /\ pc' = "done"
  /\ UNCHANGED <<tool, bag, op, args, log, sent>>
  /\ UNCHANGED <<regVars, histVars, inflight>>

\* The invocation is over: nothing of it is kept by the program; the history
\* counts it and remembers the very first one.
Finished ==
  /\ pc = "done"
  /\ calls' = calls + 1
  /\ first' = IF calls = 0 THEN Invocation(op, args, sent, response, result) ELSE first
  /\ pc' = "idle"
  /\ tool' = ""
  /\ bag' = EmptyBag
  /\ op' = ""
  /\ args' = EmptyBag
  /\ log' = <<>>
  /\ sent' = <<>>
  /\ response' = ""
  /\ result' = ""
  /\ UNCHANGED <<regVars, inflight>>

NextSession == CallNext \/ Answer \/ Finished

SpecSession == Init /\ [][NextSession]_vars

\* ---- the tool registry ----

\* The catalogue and the dispatch table hold references to the declaration
\* and handler objects of the adapter modules: <<m, i>> is the i-th item of
\* module m.
DeclAt(c) == AdapterModules[c[1]].tools[c[2]]
HandlerAt(c) == AdapterModules[c[1]].handlers[c[2]]

\* the keys of a module's handler dict
HandlerNames(hs) == {hs[i].name : i \in 1..Len(hs)}

\* the dict get_*_handlers of module m returns: a key written twice in the
\* literal keeps its last value
HandlerDict(m) ==
  LET hs == AdapterModules[m].handlers
  IN  [n \in HandlerNames(hs) |->
         <<m, CHOOSE i \in 1..Len(hs) :
                hs[i].name = n /\ \A j \in (i + 1)..Len(hs) : hs[j].name # n>>]

\* the names declared in the catalogue
Declared == {DeclAt(catalogue[i]).name : i \in 1..Len(catalogue)}

\* At startup the registry merges the next adapter module: its declarations
\* are appended to the catalogue, its handler dict is merged into the
\* dispatch table, an existing key being overwritten.
Load ==
  /\ pc = "idle"
  /\ loaded < Len(AdapterModules)
  /\ LET m == loaded + 1
         d == HandlerDict(m)
     IN  /\ catalogue' = catalogue \o [i \in 1..Len(AdapterModules[m].tools) |-> <<m, i>>]
         /\ dispatch' = [n \in DOMAIN dispatch \cup DOMAIN d |->
                           IF n \in DOMAIN d THEN d[n] ELSE dispatch[n]]
         /\ overwritten' = overwritten \cup (DOMAIN dispatch \cap DOMAIN d)
  /\ loaded' = loaded + 1
  /\ UNCHANGED <<pc, tool, bag, op, args, log, sent, response, result, histVars, inflight>>

\* Once started, the registry looks the requested tool up by name and runs
\* its handler on the bag.
Serve ==
  /\ pc = "idle"
  /\ loaded = Len(AdapterModules)
  /\ \E k \in 1..Len(catalogue) :
       LET d == DeclAt(catalogue[k])
       IN  /\ d.name \in DOMAIN dispatch
           /\ \E b \in BagSets(d) : Handle(HandlerAt(dispatch[d.name]), b)
  /\ UNCHANGED <<regVars, histVars, inflight>>

NextRegistry == Load \/ Serve \/ Return \/ Complete

SpecRegistry == Init /\ [][NextRegistry]_vars

\* ---- properties ----

\* s has sub at some position
HasSub(s, sub) ==
  \E i \in 1..(Len(s) - Len(sub) + 1) : SubSeq(s, i, i + Len(sub) - 1) = sub

HasPrefix(s, pre) == Len(pre) <= Len(s) /\ SubSeq(s, 1, Len(pre)) = pre

HasSuffix(s, suf) ==
  Len(suf) <= Len(s) /\ SubSeq(s, Len(s) - Len(suf) + 1, Len(s)) = suf

\* an invocation has entered a domain function
Entered == pc \in {"waiting", "done"}

\* the last command given to the connector
Cmd == sent[Len(sent)]

\* the three functions that never look at the response
Uninspecting ==
  {"mikrotik_reset_queue_counters", "mikrotik_system_reboot", "mikrotik_system_shutdown"}

\* "Failed to <action>: " followed by the response
IsFailureResult(res, r) ==
  /\ HasPrefix(res, "Failed to ")
  /\ HasSuffix(res, ": " \o r)

\* C1: an operation other than reset_queue_counters, system_reboot and
\* system_shutdown returns its failure result if and only if the lower-cased
\* response contains "failure:" or "error".
C1_FailureIffSubstring ==
  (pc = "done" /\ op \notin Uninspecting) =>
    (IsFailureResult(result, response)
       <=> (HasSub(Lower(response), "failure:") \/ HasSub(Lower(response), "error")))

\* C1 on the spec's examples: "ERROR", "Failure: x" and "no error here, all
\* good" are failures, "failure" without a colon and "" are successes.
C1_Examples ==
  (pc = "done" /\ op \notin Uninspecting) =>
    /\ response \in {"ERROR", "Failure: x", "no error here, all good"}
         => IsFailureResult(result, response)
    /\ response \in {"failure", ""} => ~IsFailureResult(result, response)

C1_Classification == C1_FailureIffSubstring /\ C1_Examples

C1_Witness ==
  /\ pc = "done"
  /\ op = "mikrotik_set_system_identity"
  /\ response = "no error here, all good"
  /\ result = "Failed to set system identity: no error here, all good"

FixedText(n) ==
  CASE n = "mikrotik_reset_queue_counters" -> "Queue counters reset successfully"
    [] n = "mikrotik_system_reboot"        -> "System reboot initiated"
    [] n = "mikrotik_system_shutdown"      -> "System shutdown initiated"

FixedCmd(n) ==
  CASE n = "mikrotik_reset_queue_counters" -> "/queue simple reset-counters"
    [] n = "mikrotik_system_reboot"        -> "/system reboot"
    [] n = "mikrotik_system_shutdown"      -> "/system shutdown"

\* C2: reset_queue_counters, system_reboot and system_shutdown return their
\* fixed success text for every response, and each submits its command to
\* the connector exactly once.
C2_AlwaysSuccess ==
  (Entered /\ op \in Uninspecting) =>
    /\ sent = <<FixedCmd(op)>>
    /\ pc = "done" => result = FixedText(op)

C2_Witness ==
  /\ pc = "done"
  /\ op = "mikrotik_system_reboot"
  /\ response = "FAILURE: no such item"
  /\ sent = <<"/system reboot">>
  /\ result = "System reboot initiated"

\* the declaration of tool n, looked up in the adapter modules
DeclaredTool(n) ==
  LET m == CHOOSE k \in 1..Len(AdapterModules) :
             \E j \in 1..Len(AdapterModules[k].tools) : AdapterModules[k].tools[j].name = n
  IN  Decl(AdapterModules[m].tools, n)

LacksRequired(n, b) == \E k \in Range(DeclaredTool(n).required) : k \notin DOMAIN b

\* C3: a handler invoked with a bag that lacks one of the tool's required
\* keys raises; the domain function is not entered, nothing is logged and no
\* command is submitted.
C3_MissingRequiredRaises ==
  (tool # "" /\ LacksRequired(tool, bag)) =>
    /\ pc = "raised"
    /\ op = ""
    /\ log = <<>>
    /\ sent = <<>>

\* the last required key is missing, the others and an optional one are there
C3_Witness ==
  /\ pc = "raised"
  /\ tool = "mikrotik_add_bgp_peer"
  /\ DOMAIN bag = {"name", "instance", "remote_address", "comment"}
  /\ sent = <<>>
  /\ log = <<>>

\* the fixed prefix of an operation's failure result
FailPrefix(n) == Op(n).fail[1].v

\* C4: on a failure-classified response the result is exactly the operation's
\* fixed prefix "Failed to <action>: " followed by the response verbatim,
\* whatever the arguments.
C4_FailureVerbatim ==
  (pc = "done" /\ op \notin Uninspecting /\ IsFailure(response)) =>
    /\ result = FailPrefix(op) \o response
    /\ HasPrefix(FailPrefix(op), "Failed to ")
    /\ HasSuffix(FailPrefix(op), ": ")
    /\ Len(result) = Len(FailPrefix(op)) + Len(response)

C4_Witness ==
  /\ pc = "done"
  /\ op = "mikrotik_remove_bridge"
  /\ args = [name |-> StrV("br0")]
  /\ response = "FAILURE: no such item"
  /\ result = "Failed to remove bridge: FAILURE: no such item"

\* ---- properties of the command ----

\* the command has been submitted and the response is awaited; Return leaves
\* sent unchanged, so the command of a finished call is the one seen here
Submitted == pc = "waiting"

ReadOps   == {n \in OpNames : HasSub(n, "_list_") \/ HasSub(n, "_get_")}
WriteOps  == OpNames \ ReadOps
CreateOps == {n \in OpNames : HasSub(n, "_create_") \/ HasSub(n, "_add_")}
RemoveOps == {n \in OpNames : HasSub(n, "_remove_")} \cup {"mikrotik_disconnect_ppp_active"}

\* the declared type of parameter p of o
TypeOf(o, p) == o.params[CHOOSE i \in 1..Len(o.params) : o.params[i].n = p].t

\* " <key>=" for a parameter of a write operation: the RouterOS attribute is
\* the parameter name with hyphens (queue_type is the attribute queue)
AttrToken(p) ==
  " " \o (IF p = "queue_type" THEN "queue" ELSE Replace(p, "_", "-")) \o "="

\* the number of places where sub occurs in s
CountSub(s, sub) ==
  Cardinality({i \in 1..(Len(s) - Len(sub) + 1) : SubSeq(s, i, i + Len(sub) - 1) = sub})

\* C5: a create/add operation called with only its required parameters
\* submits the fixed path and verb followed by the required key/value pairs
\* and nothing else; create_bridge(name="br0") submits exactly
\* /interface bridge add name="br0".
C5_RequiredOnly ==
  (Submitted /\ op \in CreateOps /\ DOMAIN args = Required(Op(op))) =>
    /\ sent = <<Render(Op(op).cmd, args, "")>>
    /\ HasPrefix(Cmd, "/")
    /\ \A q \in Optional(Op(op)) : ~HasSub(Cmd, AttrToken(q))
    /\ CountSub(Cmd, "=") = Cardinality(Required(Op(op)))
    /\ (op = "mikrotik_create_bridge" /\ args["name"].s = "br0")
         => Cmd = "/interface bridge add name=\"br0\""

C5_Witness ==
  /\ Entered
  /\ op = "mikrotik_create_pppoe_client"
  /\ DOMAIN args = {"name", "interface", "user", "password"}
  /\ Cmd = "/interface pppoe-client add name=\"br0\" interface=\"br0\" user=\"br0\" password=\"br0\""

\* C6: for every optional boolean attribute of an add/create/set operation,
\* true appends " <key>=yes", false appends " <key>=no" and absent appends no
\* token for that key.
C6_BooleanThreeWays ==
  (Submitted /\ op \in WriteOps) =>
    \A q \in Optional(Op(op)) :
      TypeOf(Op(op), q) = "bool" =>
        /\ q \notin DOMAIN args => ~HasSub(Cmd, AttrToken(q))
        /\ (q \in DOMAIN args /\ args[q].b) =>
             /\ CountSub(Cmd, AttrToken(q) \o "yes") = 1
             /\ CountSub(Cmd, AttrToken(q)) = 1
        /\ (q \in DOMAIN args /\ ~args[q].b) =>
             /\ CountSub(Cmd, AttrToken(q) \o "no") = 1
             /\ CountSub(Cmd, AttrToken(q)) = 1

C6_Witness ==
  /\ Entered
  /\ op = "mikrotik_create_bridge"
  /\ args = [name |-> StrV("br0"), vlan_filtering |-> BoolV(FALSE)]
  /\ Cmd = "/interface bridge add name=\"br0\" vlan-filtering=no"

\* C7 as stated: in a write operation an optional parameter's token is in
\* the command whenever the parameter is present, whatever its value
\* (0 and "" included), and is omitted only when it is absent.
C7_PresentIsEmitted ==
  (Submitted /\ op \in WriteOps) =>
    \A q \in Optional(Op(op)) : HasSub(Cmd, AttrToken(q)) <=> q \in DOMAIN args

\* the parameters the functions test with `is not None`: the booleans, and
\* the integers other than mtu, key_size and days_valid
TestedForNone(o, q) ==
  \/ TypeOf(o, q) = "bool"
  \/ TypeOf(o, q) = "int" /\ q \notin {"mtu", "key_size", "days_valid"}

\* C7 (amended): the token of an optional parameter is in the command exactly
\* when the parameter is present and either is one tested with `is not None`
\* (any value, 0 and false included) or has a non-empty, non-zero value.
C7_EmittedWhenTestPasses ==
  (Submitted /\ op \in WriteOps) =>
    \A q \in Optional(Op(op)) :
      HasSub(Cmd, AttrToken(q))
        <=> (q \in DOMAIN args /\ (TestedForNone(Op(op), q) \/ Truthy(args[q])))

\* mtu=0 and priority=0 are both supplied: only priority=0 is sent
C7_Witness ==
  /\ Entered
  /\ op = "mikrotik_create_bridge"
  /\ args = [name |-> StrV("br0"), mtu |-> IntV(0), priority |-> IntV(0)]
  /\ Cmd = "/interface bridge add name=\"br0\" priority=0"

\* the filter parameters of a read operation whose clause is in the command
Applied(o) == {i \in 1..Len(o.opts) : HasSub(Cmd, o.opts[i].add[1].v)}

\* C8: the command of a list operation has at most one "where" clause,
\* naming one attribute; two supplied filters are never both in the command.
C8_AtMostOneWhere ==
  (Submitted /\ op \in ReadOps) =>
    /\ CountSub(Cmd, " where ") <= 1
    /\ CountSub(Cmd, "~") + CountSub(Cmd, "=") = CountSub(Cmd, " where ")
    /\ Cardinality(Applied(Op(op))) = CountSub(Cmd, " where ")

C8_Witness ==
  /\ Entered
  /\ op = "mikrotik_list_simple_queues"
  /\ args = [name_filter |-> StrV("br0"), target_filter |-> StrV("br0")]
  /\ Cmd = "/queue simple print where name~\"br0\""

\* the position of parameter q among the declared parameters of o
Position(o, q) == CHOOSE i \in 1..Len(o.params) : o.params[i].n = q

\* C9 as stated: the filter applied is the first one, in declared parameter
\* order, that is not absent, whatever its value.
C9_FirstSuppliedWins ==
  (Submitted /\ op \in ReadOps) =>
    \A j \in 1..Len(Op(op).opts) :
      j \in Applied(Op(op))
        <=> /\ Op(op).opts[j].p \in DOMAIN args
            /\ \A q \in DOMAIN args :
                 Position(Op(op), q) >= Position(Op(op), Op(op).opts[j].p)

\* C9 (amended): the filter applied is the first one, in declared parameter
\* order, whose value is true or a non-empty string; a filter supplied as ""
\* or false is passed over like an absent one.
C9_FirstTruthyWins ==
  (Submitted /\ op \in ReadOps) =>
    \A j \in 1..Len(Op(op).opts) :
      j \in Applied(Op(op))
        <=> /\ Op(op).opts[j].p \in DOMAIN args
            /\ Truthy(args[Op(op).opts[j].p])
            /\ \A q \in DOMAIN args :
                 Truthy(args[q]) =>
                   Position(Op(op), q) >= Position(Op(op), Op(op).opts[j].p)

\* name_filter is supplied but empty: the later filter is applied
C9_Witness ==
  /\ Entered
  /\ op = "mikrotik_list_bridges"
  /\ args = [name_filter |-> StrV(""), disabled_only |-> BoolV(TRUE)]
  /\ Cmd = "/interface bridge print where disabled=yes"

FindKeys == {"name", "interface", "user", "service-name"}

ByIdentifier == {"mikrotik_remove_ipv6_address", "mikrotik_remove_ipv6_route"}

\* C10: a remove-style operation addresses its target as
\* <path> remove [find <key>="<value>"], except remove_ipv6_address and
\* remove_ipv6_route, which put the identifier unquoted and unchanged right
\* after "remove ".
C10_RemoveAddressing ==
  (Submitted /\ op \in RemoveOps) =>
    LET v == args[Op(op).params[1].n].s
    IN  /\ Len(Op(op).params) = 1
        /\ HasPrefix(Cmd, "/")
        /\ CountSub(Cmd, " remove ") = 1
        /\ IF op \in ByIdentifier
           THEN /\ HasSuffix(Cmd, " remove " \o v)
                /\ ~HasSub(Cmd, "[find ")
                /\ ~HasSub(Cmd, "\"")
           ELSE \E k \in FindKeys :
                  HasSuffix(Cmd, " remove [find " \o k \o "=\"" \o v \o "\"]")

C10_Witness ==
  /\ Entered
  /\ op = "mikrotik_remove_ipv6_address"
  /\ Cmd = "/ipv6 address remove *1"

\* ---- quoting and escaping ----

RECURSIVE EscapeChars(_)
\* s with each double quote replaced by backslash-quote and each newline by
\* backslash-n, one character at a time
EscapeChars(s) ==
  IF s = "" THEN ""
  ELSE (CASE Head(s) = "\"" -> "\\\""
          [] Head(s) = "\n" -> "\\n"
          [] OTHER          -> Head(s)) \o EscapeChars(Tail(s))

\* every double quote of s has a backslash right before it
QuotesPreceded(s) ==
  \A i \in 1..Len(s) :
    SubSeq(s, i, i) = "\"" => (i > 1 /\ SubSeq(s, i - 1, i - 1) = "\\")

\* the command of add_script up to the opening quote of the source attribute
ScriptPrefix == "/system script add name=\"" \o args["name"].s \o "\" source=\""

\* C11: the source attribute that add_script embeds in its command is the
\* source with each double quote turned into backslash-quote and each newline
\* into backslash-n, every other character copied unchanged and in order; it
\* holds no raw newline and each of its double quotes follows a backslash.
C11_SourceEscaped ==
  (Submitted /\ op = "mikrotik_add_script") =>
    LET e == EscapeChars(args["source"].s)
    IN  /\ HasPrefix(Cmd, ScriptPrefix \o e \o "\"")
        /\ ~HasSub(e, "\n")
        /\ QuotesPreceded(e)
        /\ CountSub(e, "\"") = CountSub(args["source"].s, "\"")
        /\ CountSub(e, "\\n") >= CountSub(args["source"].s, "\n")
        /\ (DOMAIN args = {"name", "source"}) => Cmd = ScriptPrefix \o e \o "\""

C11_Witness ==
  /\ Entered
  /\ op = "mikrotik_add_script"
  /\ args = [name |-> StrV("br0"), source |-> StrV("\"\n\"")]
  /\ Cmd = "/system script add name=\"br0\" source=\"\\\"\\n\\\"\""

RECURSIVE CommaSeparated(_, _)
\* the first n addresses of l, a comma before each one but the first
CommaSeparated(l, n) ==
  IF n = 0 THEN ""
  ELSE IF n = 1 THEN l[1]
  ELSE CommaSeparated(l, n - 1) \o "," \o l[n]

\* C12: set_ntp_client with a non-empty sequence of server addresses emits
\* exactly one attribute servers="s1,s2,...,sn", the addresses in the given
\* order with single commas between them inside one pair of double quotes;
\* with the sequence absent or empty it emits no servers attribute.
C12_ServersJoined ==
  (Submitted /\ op = "mikrotik_set_ntp_client") =>
    IF "servers" \in DOMAIN args /\ args["servers"].l # <<>>
    THEN LET l == args["servers"].l
         IN  /\ CountSub(Cmd, " servers=") = 1
             /\ HasSub(Cmd, " servers=\"" \o CommaSeparated(l, Len(l)) \o "\"")
             /\ CountSub(Cmd, ",") = Len(l) - 1
             /\ CountSub(Cmd, "\"") = 2
    ELSE ~HasSub(Cmd, "servers")

C12_Witness ==
  /\ Entered
  /\ op = "mikrotik_set_ntp_client"
  /\ args = [servers |-> ListV(<<"10.0.0.2", "10.0.0.1">>), enabled |-> BoolV(TRUE)]
  /\ Cmd = "/system ntp client set enabled=yes servers=\"10.0.0.2,10.0.0.1\""

\* an empty sequence is given: nothing about servers is sent
C12_WitnessEmpty ==
  /\ Entered
  /\ op = "mikrotik_set_ntp_client"
  /\ args = [servers |-> ListV(<<>>)]
  /\ Cmd = "/system ntp client set"

\* ---- the registry ----

\* C13: the merged catalogue has no duplicate tool name, the declared names
\* are exactly the keys of the merged dispatch table, and merging the
\* modules' dispatch maps overwrites no entry.
C13_CatalogueMatchesDispatch ==
  /\ Cardinality(Declared) = Len(catalogue)
  /\ Declared = DOMAIN dispatch
  /\ overwritten = {}
  /\ \A n \in DOMAIN dispatch : HandlerAt(dispatch[n]).name = n

\* every module is merged and a tool of the last one has been served
C13_Witness ==
  /\ loaded = Len(AdapterModules)
  /\ Len(catalogue) = 90
  /\ Cardinality(DOMAIN dispatch) = 90
  /\ pc = "done"
  /\ tool = "mikrotik_list_packages"

\* ---- quoting by kind of value ----

\* q without its last n characters
DropLast(q, n) == SubSeq(q, 1, Len(q) - n)

\* the RouterOS attribute that parameter q of operation n sets or filters on
AttrKey(n, q) ==
  CASE q = "queue_type" -> "queue"
    [] q = "as_number" -> "as"
    [] q = "dst_filter" -> "dst-address"
    [] q = "certificate" /\ n = "mikrotik_enable_ssl_certificate" -> "name"
    [] q = "package_name" /\ n \in {"mikrotik_enable_package", "mikrotik_disable_package"} -> "name"
    [] HasSuffix(q, "_filter") -> Replace(DropLast(q, 7), "_", "-")
    [] HasSuffix(q, "_only") -> Replace(DropLast(q, 5), "_", "-")
    [] OTHER -> Replace(q, "_", "-")

\* attribute k is in the command
Emitted(k) == HasSub(Cmd, " " \o k \o "=") \/ HasSub(Cmd, " " \o k \o "~")

\* attribute k is in the command with v between double quotes
QuotedAttr(k, v) ==
  /\ \/ HasSub(Cmd, " " \o k \o "=\"" \o v \o "\"")
     \/ HasSub(Cmd, " " \o k \o "~\"" \o v \o "\"")
  /\ ~HasSub(Cmd, " " \o k \o "=" \o v)

\* attribute k is in the command with v right after the = sign, no quote
BareAttr(k, v) ==
  /\ HasSub(Cmd, " " \o k \o "=" \o v)
  /\ ~HasSub(Cmd, " " \o k \o "=\"")
  /\ ~HasSub(Cmd, " " \o k \o "~")

\* the value of supplied parameter q as the command shows it
Shown(q) ==
  LET v == args[q]
  IN  CASE v.t = "bool" -> IF v.b THEN "yes" ELSE "no"
        [] v.t = "int"  -> ToString(v.i)
        [] v.t = "list" -> CommaSeparated(v.l, Len(v.l))
        [] v.t = "str"  -> IF q = "source" THEN EscapeChars(v.s) ELSE v.s

\* the non-empty attribute values of the submitted command: <<key, value>>
\* for each supplied parameter whose attribute is in it
Attributes ==
  {q \in DOMAIN args :
     /\ op \notin ByIdentifier
     /\ Emitted(AttrKey(op, q))
     /\ Shown(q) # ""}

\* C14 as stated: in every command each string-typed value is wrapped in
\* double quotes, each boolean is the bare token yes or no, and each numeric
\* or enumerated value is without quotes; a value is string-typed when its
\* parameter is declared str (or a list of str) and the tool schema gives no
\* enumeration for it.
C14_QuotingByType ==
  Submitted =>
    \A q \in Attributes :
      LET k == AttrKey(op, q)
          v == Shown(q)
      IN  IF args[q].t \in {"bool", "int"} \/ <<op, q>> \in EnumProps
          THEN BareAttr(k, v)
          ELSE QuotedAttr(k, v)

\* the parameters declared str that are sent bare: enumerations, durations,
\* rates and limits, algorithm, protocol and policy names, VLAN ids
BareStrings ==
  {"action", "ageing_time", "arp", "arp_timeout", "auth_algorithms", "auth_method",
   "authentication", "authentication_protocol", "burst_limit", "burst_threshold",
   "burst_time", "enc_algorithms", "encryption_protocol", "exchange_mode",
   "hold_time", "interval", "kind", "lifetime", "limit_at", "limit_bytes_in",
   "limit_bytes_out", "limit_bytes_total", "limit_uptime", "max_limit", "mode",
   "network_type", "pcq_classifier", "pcq_limit", "pcq_rate", "pcq_total_limit",
   "pfs_group", "point_to_point", "policy", "protocol_mode", "queue_type",
   "receive", "send", "service", "service_filter", "type", "vlan_ids"}

\* C14 (amended): each boolean is the bare token yes or no, each integer is
\* without quotes, and a parameter declared str is sent the same way in
\* every operation: bare when it is one of BareStrings (which holds every
\* enumerated one), wrapped in double quotes otherwise; the servers list is
\* one quoted value.
C14_QuotingByParameter ==
  Submitted =>
    /\ \A q \in Attributes :
         LET k == AttrKey(op, q)
             v == Shown(q)
         IN  IF args[q].t \in {"bool", "int"} \/ q \in BareStrings
             THEN BareAttr(k, v)
             ELSE QuotedAttr(k, v)
    /\ \A q \in DOMAIN args : <<op, q>> \in EnumProps => q \in BareStrings
    /\ \A q \in DOMAIN args :
         (args[q].t = "str" /\ args[q].s # "" /\ op \notin ReadOps \cup ByIdentifier)
           => q \in Attributes

\* a quoted string, a bare string, a bare integer and nothing else
C14_Witness ==
  /\ Entered
  /\ op = "mikrotik_create_bridge"
  /\ args = [name |-> StrV("br0"), arp_timeout |-> StrV("br0"), priority |-> IntV(5)]
  /\ Cmd = "/interface bridge add name=\"br0\" arp-timeout=br0 priority=5"

\* ---- values that reach the command unescaped ----

RECURSIVE BackslashesBefore(_, _)
\* the number of consecutive backslashes right before position i of s
BackslashesBefore(s, i) ==
  IF i > 1 /\ SubSeq(s, i - 1, i - 1) = "\\"
  THEN 1 + BackslashesBefore(s, i - 1)
  ELSE 0

\* the double quotes of s that open or close a quoted value: those with an
\* even number of backslashes before them
UnescapedQuotes(s) ==
  Cardinality({i \in 1..Len(s) :
                 SubSeq(s, i, i) = "\"" /\ BackslashesBefore(s, i) % 2 = 0})

\* the same call with every non-empty string argument replaced by plain text
Plain(a) ==
  [q \in DOMAIN a |-> IF a[q].t = "str" /\ a[q].s # "" THEN StrV("x") ELSE a[q]]

\* C15: every submitted command is already escaped: no character of an
\* argument value ends the double-quoted value that encloses it, so the
\* command has the quoted values, and with them the attributes, that the
\* operation builds for plain text in the same parameters.
C15_AlreadyEscaped ==
  Submitted =>
    UnescapedQuotes(Cmd) = UnescapedQuotes(BuildCmd(Op(op), Plain(args)))

\* ---- results of the read operations ----

\* the text an operation puts before the response in its success result
Heading(n) == Op(n).ok[1].v

\* the response is not one the functions classify as a failure
NotFailure(r) == ~HasSub(Lower(r), "failure:") /\ ~HasSub(Lower(r), "error")

\* C16: on a response not classified as failure every read (print-style)
\* operation returns its fixed heading, a colon, a blank line and then the
\* response verbatim; run_script does the same under a heading that names
\* the script.
C16_ReadVerbatim ==
  (pc = "done" /\ NotFailure(response)) =>
    /\ op \in ReadOps =>
         /\ result = Heading(op) \o response
         /\ HasSuffix(Heading(op), ":\n\n")
         /\ CountSub(Heading(op), "\n") = 2
         /\ Len(Heading(op)) > 3
         /\ HasSuffix(result, response)
         /\ Len(result) = Len(Heading(op)) + Len(response)
    /\ op = "mikrotik_list_bridges" => result = "Bridge Interfaces:\n\n" \o response
    /\ op = "mikrotik_get_system_resource" => result = "System Resources:\n\n" \o response
    /\ op = "mikrotik_run_script" =>
         result = "Script '" \o args["name"].s \o "' executed:\n\n" \o response

C16_Witness ==
  /\ pc = "done"
  /\ op = "mikrotik_list_bridges"
  /\ response = " 0 R  name=\"br0\" mtu=1500\n 1 X  name=\"br1\"\n"
  /\ result = "Bridge Interfaces:\n\n 0 R  name=\"br0\" mtu=1500\n 1 X  name=\"br1\"\n"

\* ---- secrets and the log ----

\* the secrets supplied to the call, empty ones left out
Secrets == {q \in DOMAIN args \cap SecretParams : args[q].s # ""}

\* C17 as stated: the informational log line of an operation that takes a
\* secret contains the secret in plain text.
C17_SecretLogged ==
  Entered => \A q \in Secrets : HasSub(log[1], args[q].s)

\* C17 (amended): an operation that takes a secret logs one informational
\* line before the command and that line does not contain the secret: it is
\* the same whatever the secret argument; the secret is in the submitted
\* command only.
C17_SecretNotLogged ==
  Entered =>
    /\ Len(log) = 1
    /\ \A q \in DOMAIN args \cap SecretParams :
         /\ \A v \in SecretVals : LogLine(Op(op), [args EXCEPT ![q] = v]) = log[1]
         /\ args[q].s = "p\"w" =>
              /\ ~HasSub(log[1], "p\"w")
              /\ HasSub(Cmd, "=\"p\"w\"")

C17_Witness ==
  /\ Entered
  /\ op = "mikrotik_create_ipsec_peer"
  /\ "secret" \in DOMAIN args
  /\ args["secret"].s = "p\"w"
  /\ args["name"].s = "br0"
  /\ args["address"].s = "br0"
  /\ log = <<"Creating IPsec peer: name=br0, address=br0">>
  /\ HasSub(Cmd, " secret=\"p\"w\"")

\* ---- independence of the invocations ----

\* the invocation under way repeats the very first one of the session
RepeatsFirst == calls > 0 /\ op = first.op /\ args = first.args

RECURSIVE Find(_, _, _)
\* the first place from i to hi where t starts in the command, 0 if none
Find(t, i, hi) ==
  IF i > hi \/ i + Len(t) - 1 > Len(Cmd) THEN 0
  ELSE IF SubSeq(Cmd, i, i + Len(t) - 1) = t THEN i
  ELSE Find(t, i + 1, hi)

\* where attribute k starts in the command, 0 if it is not there
At(k) == Find(" " \o k \o "=", 1, Len(Cmd))

RECURSIVE Ordered(_, _, _)
\* from the i-th declared parameter on, every supplied parameter whose
\* attribute is in the command has it at or after place c and after those
\* of the parameters declared before it
Ordered(o, i, c) ==
  IF i > Len(o.params) THEN TRUE
  ELSE IF o.params[i].n \notin DOMAIN args THEN Ordered(o, i + 1, c)
  ELSE LET t == " " \o AttrKey(op, o.params[i].n) \o "="
           p == Find(t, c, Len(Cmd))
       IN  IF p > 0 THEN Ordered(o, i + 1, p)
           ELSE Find(t, 1, c - 1) = 0 /\ Ordered(o, i + 1, c)

\* the attributes of the supplied parameters are in declared parameter order
InDeclaredOrder == Ordered(Op(op), 1, 1)

\* the required parameters are declared before the optional ones
RequiredFirst(o) ==
  \A i \in 1..(Len(o.params) - 1) : o.params[i + 1].req => o.params[i].req

\* C19 as stated: in every write operation's command the attributes are in
\* the order in which the function declares its parameters, for all
\* operations, enable_ssl_certificate and sign_certificate included.
C19_DeclaredOrder ==
  (Submitted /\ op \in WriteOps \ ByIdentifier) => InDeclaredOrder

\* C19 (amended): in every write operation's command that has attributes
\* (the two IPv6 removals address by bare identifier) every required
\* parameter's attribute is present, required parameters are declared first,
\* and the attributes are in declared parameter order, except in
\* enable_ssl_certificate(service, certificate), whose command has the
\* certificate ([find name="<certificate>"]) before service=<service>.
C19_DeclaredOrderButSsl ==
  (Submitted /\ op \in WriteOps \ ByIdentifier) =>
    /\ \A q \in Required(Op(op)) : At(AttrKey(op, q)) > 0
    /\ RequiredFirst(Op(op))
    /\ IF op = "mikrotik_enable_ssl_certificate"
       THEN /\ At("name") < At("service")
            /\ Cmd = "/certificate enable-ssl-certificate [find name=\""
                       \o args["certificate"].s \o "\"] service=" \o args["service"].s
       ELSE InDeclaredOrder

\* two optional attributes after the four required ones
C19_Witness ==
  /\ Entered
  /\ op = "mikrotik_add_bgp_peer"
  /\ DOMAIN args = {"name", "instance", "remote_address", "remote_as", "ttl", "comment"}
  /\ args["ttl"] = IntV(5)
  /\ args["comment"] = StrV("br0")
  /\ HasSuffix(Cmd, " remote-as=5 ttl=5 comment=\"br0\"")

\* the exception: the second parameter comes first
C19_WitnessSsl ==
  /\ Entered
  /\ op = "mikrotik_enable_ssl_certificate"
  /\ Cmd = "/certificate enable-ssl-certificate [find name=\"br0\"] service=br0"

\* ---- the handler against the call by name ----

\* the handler registered under tool name n
RegisteredHandler(n) ==
  LET m == CHOOSE k \in 1..Len(AdapterModules) :
             \E j \in 1..Len(AdapterModules[k].handlers) :
               AdapterModules[k].handlers[j].name = n
      j == CHOOSE j \in 1..Len(AdapterModules[m].handlers) :
             AdapterModules[m].handlers[j].name = n
  IN  AdapterModules[m].handlers[j]

\* every value the handler passes lands on the parameter named like its key
SameNames(h) ==
  /\ Len(h.reads) <= Len(Op(h.func).params)
  /\ \A i \in 1..Len(h.reads) : h.reads[i].key = Op(h.func).params[i].n

\* C20: for every tool and every bag that has all the required keys, the
\* handler enters the domain function of the tool's name with each bag entry
\* bound to the parameter of the same name and the others absent, so it logs
\* and submits what the call by name does and returns the same string; no
\* value is passed in the place of a parameter of another name.
C20_HandlerAsCallByName ==
  (tool # "") =>
    /\ pc = "raised" => LacksRequired(tool, bag)
    /\ pc = "waiting" =>
         /\ RegisteredHandler(tool).func = tool
         /\ SameNames(RegisteredHandler(tool))
         /\ log = <<LogLine(Op(tool), bag)>>
         /\ sent = <<BuildCmd(Op(tool), bag)>>
    /\ Entered =>
         /\ op = tool
         /\ args = bag
    /\ pc = "done" => result = Finish(Op(tool), bag, response)

\* the cited queue tree handler, with two optional keys in the bag: the
\* tenth and the fifth parameter get their values, the others are absent
C20_Witness ==
  /\ pc = "done"
  /\ tool = "mikrotik_create_queue_tree"
  /\ DOMAIN bag = {"name", "parent", "max_limit", "packet_mark", "burst_threshold"}
  /\ bag["parent"] # bag["max_limit"]
  /\ bag["packet_mark"] # bag["burst_threshold"]
  /\ args = bag
  /\ ~IsFailure(response)

\* ---- the keys a handler reads against the schema of its tool ----

\* the keys the handler reads with args["key"] and with args.get("key")
DirectKeys(h) == {h.reads[i].key : i \in {j \in 1..Len(h.reads) : h.reads[j].m = "direct"}}
GetKeys(h)    == {h.reads[i].key : i \in {j \in 1..Len(h.reads) : h.reads[j].m = "get"}}

\* the properties the schema of declaration d declares
Properties(d) == {d.props[i].n : i \in 1..Len(d.props)}

\* C21: the handler of every tool reads by failing lookup exactly the keys of
\* the schema's required list and by defaulting lookup exactly the other
\* declared properties, each once; it reads no undeclared key.  (Checked when
\* the handler has run: Return changes neither the tool nor the bag.)
C21_ReadsAreSchema ==
  (tool # "" /\ pc # "done") =>
    LET h == RegisteredHandler(tool)
        d == DeclaredTool(tool)
    IN  /\ DirectKeys(h) = Range(d.required)
        /\ GetKeys(h) = Properties(d) \ Range(d.required)
        /\ DirectKeys(h) \cup GetKeys(h) \subseteq Properties(d)
        /\ Len(h.reads) = Cardinality(Properties(d))
        /\ pc = "waiting" => DOMAIN args = DOMAIN bag

\* a tool with two required and nine other properties, invoked with both
\* required keys and two of the others
C21_Witness ==
  /\ pc = "waiting"
  /\ tool = "mikrotik_add_ppp_secret"
  /\ Cardinality(DirectKeys(RegisteredHandler(tool))) = 2
  /\ Cardinality(GetKeys(RegisteredHandler(tool))) >= 2
  /\ Cardinality(DOMAIN bag) = 4

\* ---- one command for each invocation ----

LogEntry ==
  /\ pc = "idle"
  /\ \E n \in OpNames : \E a \in ArgSets(Op(n)) :
       /\ op' = n
       /\ args' = a
       /\ log' = Append(log, LogLine(Op(n), a))
  /\ pc' = "logged"
  /\ UNCHANGED <<tool, bag, sent, response, result>>
  /\ UNCHANGED <<regVars, histVars, inflight>>

\* Submit writing a log entry of its own, with the submission
Submit_ThenLog ==
  /\ pc = "logged"
  /\ IF Raises(Op(op), args)
     THEN /\ pc' = "raised"
          /\ sent' = sent
     ELSE /\ pc' = "waiting"
          /\ sent' = Append(sent, BuildCmd(Op(op), args))
  /\ log' = Append(log, LogLine(Op(op), args))
  /\ UNCHANGED <<tool, bag, op, args, response, result>>
  /\ UNCHANGED <<regVars, histVars, inflight>>

\* The command is built and given to execute_mikrotik_command.
Submit ==
  /\ pc = "logged"
  /\ IF Raises(Op(op), args)
     THEN /\ pc' = "raised"
          /\ sent' = sent
     ELSE /\ pc' = "waiting"
          /\ sent' = Append(sent, BuildCmd(Op(op), args))
  /\ UNCHANGED <<tool, bag, op, args, log, response, result>>
  /\ UNCHANGED <<regVars, histVars, inflight>>

NextSteps == LogEntry \/ Submit \/ Return \/ Complete

SpecSteps == Init /\ [][NextSteps]_vars

\* C23: the events of an invocation come in one order: first exactly one log
\* entry, with nothing submitted yet; then the one submission, the log
\* unchanged; then classification and return, log and command unchanged.
\* The entry is therefore there when the response is a failure.
C23_LogSubmitReturn ==
  [][/\ (pc = "idle") =>
          (pc' = "logged" /\ log = <<>> /\ Len(log') = 1 /\ sent' = <<>>)
     /\ (pc = "logged") =>
          (pc' = "waiting" /\ log' = log /\ sent = <<>> /\ Len(sent') = 1)
     /\ (pc = "waiting") =>
          (pc' = "done" /\ log' = log /\ sent' = sent /\ Len(log) = 1
             /\ result' = Finish(Op(op), args, response'))
     /\ (pc = "done") => (pc' = "idle" /\ Len(log) = 1 /\ Len(sent) = 1)]_vars

\* the log entry of an invocation that has failed
C23_Witness ==
  /\ pc = "done"
  /\ op = "mikrotik_add_snmp_community"
  /\ IsFailure(response)
  /\ HasPrefix(result, "Failed to ")
  /\ Len(log) = 1
  /\ Len(sent) = 1

\* the entry is written and the command is not yet submitted
C23_WitnessLogged ==
  /\ pc = "logged"
  /\ op = "mikrotik_system_reboot"
  /\ Len(log) = 1
  /\ sent = <<>>

\* ---- two invocations in progress at the same time ----

\* the tools the two callers invoke and the keys they pass
PairTools == {"mikrotik_create_bridge", "mikrotik_list_bridges", "mikrotik_remove_bridge"}
PairKeys  == {"name", "comment", "vlan_filtering", "name_filter", "disabled_only"}

\* the argument bags of a caller for declaration d
PairBags(d) == UNION {Bindings(d.props, K) : K \in SUBSET (Properties(d) \cap PairKeys)}

\* Invocation i starts: the handler reads its bag and calls the domain
\* function, which writes its log entry.
Start(i) ==
  /\ inflight[i].pc = "idle"
  /\ \E t \in PairTools : \E b \in PairBags(DeclaredTool(t)) :
       LET h == RegisteredHandler(t)
       IN  IF KeyError(h, b)
           THEN /\ inflight' = [inflight EXCEPT ![i] = Local("raised", t, b, "", EmptyBag, "", "", "")]
                /\ log' = log
           ELSE /\ inflight' = [inflight EXCEPT ![i] =
                                  Local("entered", t, b, h.func, Positional(h, b), "", "", "")]
                /\ log' = Append(log, LogLine(Op(h.func), Positional(h, b)))
  /\ UNCHANGED <<pc, tool, bag, op, args, sent, response, result, regVars, histVars>>

\* SubmitOf with cmd kept at module level: the command an invocation submits
\* is the one built from the parameters of the invocation that entered last
SubmitOf_SharedCmd(i) ==
  /\ inflight[i].pc = "entered"
  /\ LET j == IF \E k \in Invocations \ {i} : inflight[k].pc = "entered"
              THEN CHOOSE k \in Invocations \ {i} : inflight[k].pc = "entered"
              ELSE i
     IN  IF Raises(Op(inflight[j].op), inflight[j].args)
         THEN /\ inflight' = [inflight EXCEPT ![i].pc = "raised"]
              /\ sent' = sent
         ELSE LET c == BuildCmd(Op(inflight[j].op), inflight[j].args)
              IN  /\ inflight' = [inflight EXCEPT ![i].pc = "waiting", ![i].cmd = c]
                  /\ sent' = Append(sent, c)
  /\ UNCHANGED <<pc, tool, bag, op, args, log, response, result, regVars, histVars>>

\* Invocation i builds cmd from its parameters and gives it to the connector.
SubmitOf(i) ==
  /\ inflight[i].pc = "entered"
  /\ IF Raises(Op(inflight[i].op), inflight[i].args)
     THEN /\ inflight' = [inflight EXCEPT ![i].pc = "raised"]
          /\ sent' = sent
     ELSE LET c == BuildCmd(Op(inflight[i].op), inflight[i].args)
          IN  /\ inflight' = [inflight EXCEPT ![i].pc = "waiting", ![i].cmd = c]
              /\ sent' = Append(sent, c)
  /\ UNCHANGED <<pc, tool, bag, op, args, log, response, result, regVars, histVars>>

\* The connector answers the command of invocation i, which classifies the
\* answer and returns.
ReturnOf(i) ==
  /\ inflight[i].pc = "waiting"
  /\ \E r \in SessionResponses :
       inflight' = [inflight EXCEPT ![i].pc = "done", ![i].response = r,
                      ![i].result = Finish(Op(inflight[i].op), inflight[i].args, r)]
  /\ UNCHANGED <<pc, tool, bag, op, args, log, sent, response, result, regVars, histVars>>

\* Both callers have their answers; two new invocations are observed afresh.
BothOver ==
  /\ \A i \in Invocations : inflight[i].pc \in {"done", "raised"}
  /\ inflight' = [i \in Invocations |-> Idle]
  /\ log' = <<>>
  /\ sent' = <<>>
  /\ UNCHANGED <<pc, tool, bag, op, args, response, result, regVars, histVars>>

NextPair == \/ \E i \in Invocations : Start(i) \/ SubmitOf(i) \/ ReturnOf(i)
            \/ BothOver

SpecPair == Init /\ [][NextPair]_vars

\* C24: however two invocations are interleaved, each submits the command
\* that its own tool and bag determine and returns the result that its own
\* command's response determines; every command submitted is the command of
\* one of the two.
C24_OwnCommandOwnResult ==
  /\ \A i \in Invocations :
       LET v == inflight[i]
       IN  /\ v.pc \in {"waiting", "done"} =>
                /\ v.cmd = BuildCmd(Op(v.tool), v.bag)
                /\ \E k \in 1..Len(sent) : sent[k] = v.cmd
           /\ v.pc = "done" => v.result = Finish(Op(v.tool), v.bag, v.response)
  /\ Len(sent) = Cardinality({i \in Invocations : inflight[i].pc \in {"waiting", "done"}})

\* the second invocation entered and submitted between the entry and the
\* submission of the first, and both have returned, one with a failure
C24_Witness ==
  /\ inflight[1].pc = "done" /\ inflight[2].pc = "done"
  /\ inflight[1].tool = "mikrotik_create_bridge"
  /\ inflight[2].tool = "mikrotik_create_bridge"
  /\ inflight[1].bag # inflight[2].bag
  /\ inflight[1].cmd # inflight[2].cmd
  /\ Len(log) = 2 /\ log[1] = LogLine(Op(inflight[1].op), inflight[1].args)
  /\ sent = <<inflight[2].cmd, inflight[1].cmd>>
  /\ IsFailure(inflight[1].response) /\ ~IsFailure(inflight[2].response)

\* ---- bags whose values are of any type ----

\* the tools invoked with such bags
AnyTools ==
  {"mikrotik_set_ntp_client", "mikrotik_add_script", "mikrotik_set_system_clock",
   "mikrotik_set_system_identity"}

\* values of every JSON type but null, whatever the schema says
AnyVals ==
  {StrV("br0"), IntV(5), IntV(0), BoolV(TRUE),
   ListV(<<"10.0.0.1", "10.0.0.2">>), ListV(<<>>)}

RECURSIVE AnyBindings(_, _)
\* the bags with the keys D of ps, each bound to any value
AnyBindings(ps, D) ==
  IF ps = <<>> THEN {EmptyBag}
  ELSE LET p == Head(ps)
           rest == AnyBindings(Tail(ps), D)
       IN  IF p.n \in D
           THEN {(p.n :> v) @@ f : f \in rest, v \in AnyVals}
           ELSE rest

\* the bags for declaration d: any of its required keys, at most MaxOptional
\* of the others
AnyBags(d) ==
  LET req == Range(d.required)
      opt == Properties(d) \ req
  IN  UNION {AnyBindings(d.props, R \cup T) : R \in SUBSET req, T \in OptionalChoices(opt)}

\* A caller invokes a handler with a bag that need not match the schema; the
\* adapter checks and converts nothing.
InvokeAny ==
  /\ pc = "idle"
  /\ \E t \in AnyTools : \E b \in AnyBags(DeclaredTool(t)) :
       Handle(RegisteredHandler(t), b)
  /\ UNCHANGED <<regVars, histVars, inflight>>

NextAny == InvokeAny \/ Answer \/ Complete

SpecAny == Init /\ [][NextAny]_vars

\* C25 as stated: a handler given a bag with all the required keys, whatever
\* the values, raises nothing: the only exception is the one for a missing
\* required key.
C25_OnlyMissingKeyRaises ==
  (tool # "" /\ ~LacksRequired(tool, bag)) => pc # "raised"

\* what does hold: with all required keys present a handler raises only in
\* set_ntp_client, on a servers value that is true and neither a list nor a
\* str, and in add_script, on a source that is not a str; the entry is
\* logged and no command is submitted
C25_RaisesOnJoinOrReplace ==
  (tool # "" /\ ~LacksRequired(tool, bag) /\ pc = "raised") =>
    /\ \/ /\ tool = "mikrotik_set_ntp_client"
          /\ bag["servers"].t \in {"int", "bool"}
          /\ Truthy(bag["servers"])
       \/ /\ tool = "mikrotik_add_script"
          /\ bag["source"].t # "str"
    /\ Len(log) = 1
    /\ sent = <<>>

\* ---- what of the response reaches the caller ----

\* the operations whose success result carries the response
Carrying == ReadOps \cup {"mikrotik_run_script"}

Failed(i) == IsFailureResult(inflight[i].result, inflight[i].response)

\* C27: two invocations of the same operation that get the same response
\* are classified alike, whatever their arguments; an invocation fails if
\* and only if its response has the failure words, so "error" in an
\* argument does not make it fail.
C27_SameResponseSameOutcome ==
  /\ \A i, j \in Invocations :
       ( /\ inflight[i].pc = "done" /\ inflight[j].pc = "done"
         /\ inflight[i].tool = inflight[j].tool
         /\ inflight[i].response = inflight[j].response )
       => (Failed(i) <=> Failed(j))
  /\ \A i \in Invocations :
       inflight[i].pc = "done" => (Failed(i) <=> IsFailure(inflight[i].response))

\* the same operation twice, once with "error" as the comment, and the same
\* response, which is not a failure: both succeed
C27_Witness ==
  /\ inflight[1].pc = "done" /\ inflight[2].pc = "done"
  /\ inflight[1].tool = "mikrotik_create_bridge"
  /\ inflight[2].tool = "mikrotik_create_bridge"
  /\ "comment" \in DOMAIN inflight[1].bag
  /\ inflight[1].bag["comment"] = StrV("error")
  /\ HasSub(inflight[1].cmd, "error")
  /\ "comment" \notin DOMAIN inflight[2].bag
  /\ inflight[1].response = inflight[2].response
  /\ ~IsFailure(inflight[1].response)
  /\ ~Failed(1) /\ ~Failed(2)

\* ---- a set operation with nothing to set ----

\* the set operations that have no required parameter
SetOps ==
  {"mikrotik_set_ipv6_settings", "mikrotik_set_snmp_settings",
   "mikrotik_set_system_clock", "mikrotik_set_ntp_client"}

\* the command of a set operation without its attributes
BareCmd(n) ==
  CASE n = "mikrotik_set_ipv6_settings" -> "/ipv6 settings set"
    [] n = "mikrotik_set_snmp_settings" -> "/snmp set"
    [] n = "mikrotik_set_system_clock"  -> "/system clock set"
    [] n = "mikrotik_set_ntp_client"    -> "/system ntp client set"

\* what a set operation returns on success
Configured(n) ==
  CASE n = "mikrotik_set_ipv6_settings" -> "IPv6 settings configured successfully"
    [] n = "mikrotik_set_snmp_settings" -> "SNMP settings configured successfully"
    [] n = "mikrotik_set_system_clock"  -> "System clock configured successfully"
    [] n = "mikrotik_set_ntp_client"    -> "NTP client configured successfully"

\* C28: set_ipv6_settings, set_snmp_settings, set_system_clock and
\* set_ntp_client have no required parameter; called with every parameter
\* absent they submit the bare command, once, and return the success text
\* unless the response is failure-classified, then the failure text.
C28_BareSetSubmitted ==
  (op \in SetOps) =>
    /\ Required(Op(op)) = {}
    /\ (DOMAIN args = {}) =>
         /\ Entered
         /\ sent = <<BareCmd(op)>>
         /\ pc = "done" =>
              result = IF IsFailure(response)
                       THEN FailPrefix(op) \o response
                       ELSE Configured(op)

\* nothing to set, the bare command was submitted and the device said done
C28_Witness ==
  /\ pc = "done"
  /\ op = "mikrotik_set_snmp_settings"
  /\ DOMAIN args = {}
  /\ sent = <<"/snmp set">>
  /\ response = "done"
  /\ result = "SNMP settings configured successfully"

\* the same, and the device refused
C28_WitnessFailure ==
  /\ pc = "done"
  /\ op = "mikrotik_set_system_clock"
  /\ DOMAIN args = {}
  /\ sent = <<"/system clock set">>
  /\ response = "Failure: x"
  /\ result = "Failed to set system clock: Failure: x"

\* ---- the boolean filter flags of the list operations ----

\* the flags and the attribute each filters on
Flags == {"disabled_only", "active_only"}
FlagKey(q) == DropLast(q, 5)

\* the flags operation n declares
FlagsOf(n) == {q \in Flags : \E i \in 1..Len(Op(n).params) : Op(n).params[i].n = q}

\* bag a without key q
Without(a, q) == [x \in DOMAIN a \ {q} |-> a[x]]

\* C29: in a list operation with a boolean filter flag, the flag passed as
\* false gives the command that leaving it absent gives; the command never
\* has "<key>=no"; and when the flag's clause is in the command, the flag is
\* true and the command ends with the unquoted " where <key>=yes".
C29_FalseFlagIsAbsent ==
  (Submitted /\ op \in ReadOps) =>
    \A q \in FlagsOf(op) :
      /\ (q \in DOMAIN args /\ ~args[q].b) => Cmd = BuildCmd(Op(op), Without(args, q))
      /\ ~HasSub(Cmd, FlagKey(q) \o "=no")
      /\ HasSub(Cmd, FlagKey(q) \o "=") =>
           /\ q \in DOMAIN args
           /\ args[q].b
           /\ HasSuffix(Cmd, " where " \o FlagKey(q) \o "=yes")

\* the flag is false, no other filter is given, and the command is the bare
\* print
C29_Witness ==
  /\ Entered
  /\ op = "mikrotik_list_ipv6_routes"
  /\ DOMAIN args = {"active_only"}
  /\ args["active_only"] = BoolV(FALSE)
  /\ Cmd = "/ipv6 route print"

\* the flag is true and its clause is emitted
C29_WitnessTrue ==
  /\ Entered
  /\ op = "mikrotik_list_ppp_secrets"
  /\ args = [disabled_only |-> BoolV(TRUE)]
  /\ Cmd = "/ppp secret print where disabled=yes"

\* ---- is the escaping of a script source lossless? ----

\* the command add_script would submit for the same parameters and source s
WithSource(s) == BuildCmd(Op(op), [args EXCEPT !["source"] = StrV(s)])

\* C30 as stated: two different sources, name and options the same, give
\* two different commands, so that the source can be recovered from the
\* command; a newline and a backslash followed by n are told apart.
C30_EscapingLossless ==
  (Submitted /\ op = "mikrotik_add_script") =>
    \A v \in SourceVals : v # args["source"] => WithSource(v.s) # Cmd

\* what does hold: the only sources that give one command differ in a
\* newline against a backslash followed by n (or, likewise, a double quote
\* against a backslash followed by a double quote); sources without a
\* backslash are told apart
C30_LosslessWithoutBackslash ==
  (Submitted /\ op = "mikrotik_add_script") =>
    \A v \in SourceVals :
      (v # args["source"] /\ WithSource(v.s) = Cmd)
        => (HasSub(v.s, "\\") \/ HasSub(args["source"].s, "\\"))

====
